---------------------------- MODULE Spec2Model ----------------------------
(***************************************************************************)
(* Resume / job-description matching pipeline (medrees-1000/data).          *)
(*                                                                         *)
(* Strings are sequences of one-character strings, so that split, join,    *)
(* strip, lower and substring search are computed as Python computes them. *)
(* Real-valued scores are exact rationals <<numerator, denominator>>.      *)
(***************************************************************************)
EXTENDS Integers, Sequences, FiniteSets, TLC

VARIABLES
    \* ingestion/chunking.py : chunk_text
    text, chunk_size, overlap, words, chunks, start, pc,
    \* app/streamlit_app.py : step 3 (semantic similarity)
    chunk_scores, top_chunks, semantic_score, spc,
    \* ingestion/job_cleaner.py : extract_requirements_section
    job_text, lines, line_no, relevant_lines, required_section,
    preferred_section, current_section, skip_section, job_sections, jpc,
    \* history of the for loop: what each iteration saw and appended to
    scan_log,
    \* matching/keyword_matcher.py : extract_keywords
    kw_text, kw_found, kpc,
    \* matching/similarity.py : rank_resumes
    rank_scores, rank_top_k, ranked, rpc,
    \* matching/keyword_matcher.py : calculate_keyword_match
    resume_keywords, job_keywords, km_job_sections, required_skills,
    preferred_skills, required_score, preferred_score, technical_score,
    match_result, mpc,
    \* matching/hybrid_scorer.py : calculate_hybrid_score
    hs_semantic_score, keyword_match_results, boosted_semantic, hybrid_score,
    score_breakdown, hpc,
    \* ingestion/process_resume.py : the global _model, the instances of
    \* SentenceTransformer built so far, and the running requests
    _model, instances, requests,
    \* matching/rank_candidates.py : main
    resume_chunks, batch_top_chunks, top_candidates, bpc

chunkVars == <<text, chunk_size, overlap, words, chunks, start, pc>>
semVars   == <<chunk_scores, top_chunks, semantic_score, spc>>
jobVars   == <<job_text, lines, line_no, relevant_lines, required_section,
               preferred_section, current_section, skip_section,
               job_sections, jpc, scan_log>>
kwVars    == <<kw_text, kw_found, kpc>>
rankVars  == <<rank_scores, rank_top_k, ranked, rpc>>
matchVars == <<resume_keywords, job_keywords, km_job_sections,
               required_skills, preferred_skills, required_score,
               preferred_score, technical_score, match_result, mpc>>
hybridVars == <<hs_semantic_score, keyword_match_results, boosted_semantic,
                hybrid_score, score_breakdown, hpc>>
procVars  == <<_model, instances, requests>>
batchVars == <<resume_chunks, batch_top_chunks, top_candidates, bpc>>
vars      == <<chunkVars, semVars, jobVars, kwVars, rankVars, matchVars,
               hybridVars, procVars, batchVars>>

\* the variables each component leaves alone
notChunkVars ==
    <<semVars, jobVars, kwVars, rankVars, matchVars,
      hybridVars, procVars, batchVars>>
notSemVars ==
    <<chunkVars, jobVars, kwVars, rankVars, matchVars,
      hybridVars, procVars, batchVars>>
notJobVars ==
    <<chunkVars, semVars, kwVars, rankVars, matchVars,
      hybridVars, procVars, batchVars>>
notKwVars ==
    <<chunkVars, semVars, jobVars, rankVars, matchVars,
      hybridVars, procVars, batchVars>>
notRankVars ==
    <<chunkVars, semVars, jobVars, kwVars, matchVars,
      hybridVars, procVars, batchVars>>
notMatchVars ==
    <<chunkVars, semVars, jobVars, kwVars, rankVars,
      hybridVars, procVars, batchVars>>
notHybridVars ==
    <<chunkVars, semVars, jobVars, kwVars, rankVars,
      matchVars, procVars, batchVars>>
notProcVars ==
    <<chunkVars, semVars, jobVars, kwVars, rankVars,
      matchVars, hybridVars, batchVars>>
notBatchVars ==
    <<chunkVars, semVars, jobVars, kwVars, rankVars,
      matchVars, hybridVars, procVars>>

----------------------------------------------------------------------------
(* Generic helpers: Python list / str primitives *)

Min(a, b) == IF a < b THEN a ELSE b
Max(a, b) == IF a > b THEN a ELSE b

\* ceil(a / b) for b > 0 and any integer a
CeilDiv(a, b) == -((-a) \div b)

\* Python index normalisation inside a slice of a list of length n
SliceIndex(i, n) == IF i < 0 THEN Max(i + n, 0) ELSE Min(i, n)

\* Python s[from:to] (0-based, end exclusive, negative indices allowed)
PySlice(s, from, to) ==
    LET f == SliceIndex(from, Len(s))
        t == SliceIndex(to, Len(s))
    IN  IF f < t THEN SubSeq(s, f + 1, t) ELSE <<>>

RECURSIVE SumSeq(_)
SumSeq(s) == IF s = <<>> THEN 0 ELSE Head(s) + SumSeq(Tail(s))

\* set(list)
Range(seq) == { seq[i] : i \in 1..Len(seq) }

\* str.split() with no argument: split on runs of whitespace, no empty words
Whitespace == {" ", "\n", "\t"}

RECURSIVE SplitWords(_, _, _)
SplitWords(s, cur, acc) ==
    IF s = <<>>
    THEN IF cur = <<>> THEN acc ELSE Append(acc, cur)
    ELSE IF Head(s) \in Whitespace
         THEN SplitWords(Tail(s), <<>>, IF cur = <<>> THEN acc ELSE Append(acc, cur))
         ELSE SplitWords(Tail(s), Append(cur, Head(s)), acc)

Split(s) == SplitWords(s, <<>>, <<>>)

\* sep.join(list) for a one-character separator
RECURSIVE Join(_, _)
Join(sep, list) ==
    IF list = <<>> THEN <<>>
    ELSE IF Len(list) = 1 THEN Head(list)
    ELSE Head(list) \o <<sep>> \o Join(sep, Tail(list))

----------------------------------------------------------------------------
(* Bounds of the chunker model *)

MaxTextLen   == 9
MaxChunkSize == 3
MaxOverlap   == 3

TextChars == {"a", " "}

Texts == UNION { [1..n -> TextChars] : n \in 0..MaxTextLen }

----------------------------------------------------------------------------
(* ingestion/chunking.py : chunk_text(text, chunk_size, overlap) *)

\* line 27: the guard of the break
BreakGuard_never(cs, ov) == FALSE
BreakGuard_strict(cs, ov) == cs < ov
BreakGuard(cs, ov) == cs <= ov

\* line 19: the loop condition
LoopCond_nonstrict(st, ws) == st <= Len(ws)
LoopCond(st, ws) == st < Len(ws)

\* lines 20-22: the chunk emitted for the window starting at st
ChunkAt_unclipped(ws, st, cs) == Join(" ", PySlice(ws, st, st + cs - 1))
ChunkAt(ws, st, cs) == Join(" ", PySlice(ws, st, st + cs))

\* line 24: the window advance
NextStart_noOverlap(st, cs, ov) == st + cs
NextStart(st, cs, ov) == st + cs - ov

\* lines 15-18: entry, for a fresh call
ChunkCall ==
    /\ pc = "idle"
    /\ \E t \in Texts, cs \in 0..MaxChunkSize, ov \in 0..MaxOverlap :
          /\ text' = t
          /\ chunk_size' = cs
          /\ overlap' = ov
          /\ words' = Split(t)
    /\ chunks' = <<>>
    /\ start' = 0
    /\ pc' = "loop"
    /\ UNCHANGED notChunkVars

\* lines 19-28: one iteration of the while loop
ChunkLoop ==
    /\ pc = "loop"
    /\ LoopCond(start, words)
    /\ chunks' = Append(chunks, ChunkAt(words, start, chunk_size))
    /\ start' = NextStart(start, chunk_size, overlap)
    /\ pc' = IF BreakGuard(chunk_size, overlap) THEN "done" ELSE "loop"
    /\ UNCHANGED <<text, chunk_size, overlap, words>>
    /\ UNCHANGED notChunkVars

\* lines 19, 30: the loop condition fails, chunks is returned
ChunkReturn ==
    /\ pc = "loop"
    /\ ~LoopCond(start, words)
    /\ pc' = "done"
    /\ UNCHANGED <<text, chunk_size, overlap, words, chunks, start>>
    /\ UNCHANGED notChunkVars

ChunkIdle ==
    /\ text = <<>>
    /\ chunk_size = 0
    /\ overlap = 0
    /\ words = <<>>
    /\ chunks = <<>>
    /\ start = 0
    /\ pc = "idle"

ChunkNext == ChunkCall \/ ChunkLoop \/ ChunkReturn

----------------------------------------------------------------------------
(* app/streamlit_app.py, step 3: ranking the resume chunks against the job *)
(* and the request-level semantic score                                    *)

MaxChunks == 6
MaxScore  == 2

\* streamlit_app.py:308, top_k=5
TopK == 5

\* streamlit_app.py:312, top_chunks[:3] and the divisor 3
TopN == 3
MeanDivisor == 3

\* cosine scores of the resume's chunks, in chunk order, as integer
\* multiples of one score unit; a successfully processed resume has at
\* least one chunk (process_resume.py:60-64)
ChunkScoreLists == UNION { [1..n -> 0..MaxScore] : n \in 1..MaxChunks }

\* a score list as the list of chunk records that is ranked
Scored(scores) == [i \in 1..Len(scores) |-> [chunk |-> i, score |-> scores[i]]]

\* stable insertion of x into a list sorted by descending score
RECURSIVE InsertDesc(_, _)
InsertDesc(x, sorted) ==
    IF sorted = <<>> THEN <<x>>
    ELSE IF Head(sorted).score >= x.score
         THEN <<Head(sorted)>> \o InsertDesc(x, Tail(sorted))
         ELSE <<x>> \o sorted

RECURSIVE SortDesc(_)
SortDesc(list) ==
    IF list = <<>> THEN <<>>
    ELSE LET n == Len(list)
         IN  InsertDesc(list[n], SortDesc(SubSeq(list, 1, n - 1)))

\* matching.similarity.get_top_matching_chunks(chunks, embeddings, job, top_k)
get_top_matching_chunks(scores, top_k) == PySlice(SortDesc(Scored(scores)), 0, top_k)

\* streamlit_app.py:312
SemanticScore(top) ==
    <<SumSeq([i \in 1..Len(PySlice(top, 0, TopN)) |-> top[i].score]), MeanDivisor>>

\* streamlit_app.py:304-309
SemRank ==
    /\ spc = "idle"
    /\ \E scores \in ChunkScoreLists :
          /\ chunk_scores' = scores
          /\ top_chunks' = get_top_matching_chunks(scores, TopK)
    /\ spc' = "ranked"
    /\ UNCHANGED semantic_score
    /\ UNCHANGED notSemVars

\* streamlit_app.py:312
SemScore ==
    /\ spc = "ranked"
    /\ semantic_score' = SemanticScore(top_chunks)
    /\ spc' = "scored"
    /\ UNCHANGED <<chunk_scores, top_chunks>>
    /\ UNCHANGED notSemVars

SemNext == SemRank \/ SemScore

----------------------------------------------------------------------------
(* More str primitives, used by ingestion/job_cleaner.py *)

UpperChars == <<"A","B","C","D","E","F","G","H","I","J","K","L","M",
                "N","O","P","Q","R","S","T","U","V","W","X","Y","Z">>
LowerChars == <<"a","b","c","d","e","f","g","h","i","j","k","l","m",
                "n","o","p","q","r","s","t","u","v","w","x","y","z">>

LowerChar(c) ==
    IF \E i \in 1..26 : UpperChars[i] = c
    THEN LowerChars[CHOOSE i \in 1..26 : UpperChars[i] = c]
    ELSE c

\* str.lower()
Lower_identity(s) == s
Lower(s) == [i \in 1..Len(s) |-> LowerChar(s[i])]

\* str.strip()
RECURSIVE LStrip(_)
LStrip(s) == IF s # <<>> /\ Head(s) \in Whitespace THEN LStrip(Tail(s)) ELSE s

RECURSIVE RStrip(_)
RStrip(s) ==
    IF s # <<>> /\ s[Len(s)] \in Whitespace
    THEN RStrip(SubSeq(s, 1, Len(s) - 1))
    ELSE s

Strip(s) == RStrip(LStrip(s))

\* sub in s
Contains(s, sub) ==
    \/ sub = <<>>
    \/ \E i \in 0..(Len(s) - Len(sub)) :
          /\ s[i + 1] = sub[1]
          /\ SubSeq(s, i + 1, i + Len(sub)) = sub

\* str.split(sep) for a one-character separator: empty fields are kept.
\* Field k lies between the (k-1)-th and the k-th separator.
SplitOn(s, sep) ==
    LET cuts == {0, Len(s) + 1} \cup { i \in 1..Len(s) : s[i] = sep }
        Cut(k) == CHOOSE p \in cuts : Cardinality({ q \in cuts : q < p }) = k
    IN  [k \in 1..(Cardinality(cuts) - 1) |->
            SubSeq(s, Cut(k - 1) + 1, Cut(k) - 1)]

\* [x for x in list if pred]
RECURSIVE NonBlank(_)
NonBlank(list) ==
    IF list = <<>> THEN <<>>
    ELSE IF Strip(Head(list)) # <<>>
         THEN <<Head(list)>> \o NonBlank(Tail(list))
         ELSE NonBlank(Tail(list))

----------------------------------------------------------------------------
(* ingestion/job_cleaner.py : vocabularies *)

\* job_cleaner.py:9-14
RELEVANT_SECTION_KEYWORDS == <<
    \* "responsibilities"
    <<"r","e","s","p","o","n","s","i","b","i","l","i","t","i","e","s">>,
    \* "requirements"
    <<"r","e","q","u","i","r","e","m","e","n","t","s">>,
    \* "qualifications"
    <<"q","u","a","l","i","f","i","c","a","t","i","o","n","s">>,
    \* "required"
    <<"r","e","q","u","i","r","e","d">>,
    \* "preferred"
    <<"p","r","e","f","e","r","r","e","d">>,
    \* "skills"
    <<"s","k","i","l","l","s">>,
    \* "experience"
    <<"e","x","p","e","r","i","e","n","c","e">>,
    \* "education"
    <<"e","d","u","c","a","t","i","o","n">>,
    \* "what you'll do"
    <<"w","h","a","t"," ","y","o","u","'","l","l"," ","d","o">>,
    \* "what you will do"
    <<"w","h","a","t"," ","y","o","u"," ","w","i","l","l"," ","d","o">>,
    \* "what you need"
    <<"w","h","a","t"," ","y","o","u"," ","n","e","e","d">>,
    \* "you will"
    <<"y","o","u"," ","w","i","l","l">>,
    \* "must have"
    <<"m","u","s","t"," ","h","a","v","e">>,
    \* "should have"
    <<"s","h","o","u","l","d"," ","h","a","v","e">>,
    \* "nice to have"
    <<"n","i","c","e"," ","t","o"," ","h","a","v","e">>,
    \* "technical skills"
    <<"t","e","c","h","n","i","c","a","l"," ","s","k","i","l","l","s">>,
    \* "key responsibilities"
    <<"k","e","y"," ","r","e","s","p","o","n","s","i","b","i","l","i","t","i","e","s">>
>>

\* job_cleaner.py:17-22
IRRELEVANT_SECTION_KEYWORDS == <<
    \* "about us"
    <<"a","b","o","u","t"," ","u","s">>,
    \* "company overview"
    <<"c","o","m","p","a","n","y"," ","o","v","e","r","v","i","e","w">>,
    \* "who we are"
    <<"w","h","o"," ","w","e"," ","a","r","e">>,
    \* "our mission"
    <<"o","u","r"," ","m","i","s","s","i","o","n">>,
    \* "our values"
    <<"o","u","r"," ","v","a","l","u","e","s">>,
    \* "benefits"
    <<"b","e","n","e","f","i","t","s">>,
    \* "compensation"
    <<"c","o","m","p","e","n","s","a","t","i","o","n">>,
    \* "salary"
    <<"s","a","l","a","r","y">>,
    \* "perks"
    <<"p","e","r","k","s">>,
    \* "what we offer"
    <<"w","h","a","t"," ","w","e"," ","o","f","f","e","r">>,
    \* "equal opportunity"
    <<"e","q","u","a","l"," ","o","p","p","o","r","t","u","n","i","t","y">>,
    \* "eeo"
    <<"e","e","o">>,
    \* "diversity"
    <<"d","i","v","e","r","s","i","t","y">>,
    \* "application process"
    <<"a","p","p","l","i","c","a","t","i","o","n"," ","p","r","o","c","e","s","s">>,
    \* "how to apply"
    <<"h","o","w"," ","t","o"," ","a","p","p","l","y">>,
    \* "contact"
    <<"c","o","n","t","a","c","t">>,
    \* "location details"
    <<"l","o","c","a","t","i","o","n"," ","d","e","t","a","i","l","s">>
>>

\* job_cleaner.py:61
REQUIRED_WORDS == <<
    \* "required"
    <<"r","e","q","u","i","r","e","d">>,
    \* "must have"
    <<"m","u","s","t"," ","h","a","v","e">>,
    \* "qualifications"
    <<"q","u","a","l","i","f","i","c","a","t","i","o","n","s">>
>>

\* job_cleaner.py:63
PREFERRED_WORDS == <<
    \* "preferred"
    <<"p","r","e","f","e","r","r","e","d">>,
    \* "nice to have"
    <<"n","i","c","e"," ","t","o"," ","h","a","v","e">>,
    \* "bonus"
    <<"b","o","n","u","s">>
>>

\* "Requirements:"
LineRequirements ==
    <<"R","e","q","u","i","r","e","m","e","n","t","s",":">>

\* "Benefits:"
LineBenefits ==
    <<"B","e","n","e","f","i","t","s",":">>

\* "Must have"
LineMustHave ==
    <<"M","u","s","t"," ","h","a","v","e">>

\* "Preferred Qualifications"
LinePreferredQual ==
    <<"P","r","e","f","e","r","r","e","d"," ","Q","u","a","l","i","f","i","c","a","t","i","o","n","s">>

\* "Nice to have"
LineNiceToHave ==
    <<"N","i","c","e"," ","t","o"," ","h","a","v","e">>

\* "Experience with salary data"
LineSalaryData ==
    <<"E","x","p","e","r","i","e","n","c","e"," ","w","i","t","h"," ","s","a","l","a","r","y"," ","d","a","t","a">>

\* "  "
LineBlank ==
    <<" "," ">>

\* "sql"
LineSql ==
    <<"s","q","l">>

\* "python java sql aws docker kubernetes terraform linux git airflow spark kafka and more"
LineLong ==
    <<"p","y","t","h","o","n"," ","j","a","v","a"," ","s","q","l"," ","a","w","s"," ","d","o","c","k","e","r"," ","k","u","b","e","r","n","e","t","e","s"," ","t","e","r","r","a","f","o","r","m"," ","l","i","n","u","x"," ","g","i","t"," ","a","i","r","f","l","o","w"," ","s","p","a","r","k"," ","k","a","f","k","a"," ","a","n","d"," ","m","o","r","e">>

----------------------------------------------------------------------------
(* Job postings given to extract_requirements_section *)

MaxLines == 4
MaxPad   == 13

LinePool == {LineRequirements, LineBenefits, LineMustHave, LinePreferredQual,
             LineNiceToHave, LineSalaryData, LineBlank, LineSql, LineLong}

\* postings of up to MaxLines lines
ShortPostings == UNION { [1..n -> LinePool] : n \in 0..MaxLines }

\* postings with a run of up to MaxPad plain lines between two lines
LongPostings ==
    { <<h>> \o [i \in 1..k |-> LineSql] \o <<t>> :
          h \in LinePool, t \in LinePool, k \in 1..MaxPad }

JobTexts == { Join("\n", ls) : ls \in ShortPostings \cup LongPostings }

----------------------------------------------------------------------------
(* ingestion/job_cleaner.py : extract_requirements_section(job_text) *)

\* job_cleaner.py:83
MIN_CLEANED_LEN == 100
\* job_cleaner.py:100
MIN_FALLBACK_LINES == 10
\* job_cleaner.py:104-105
EDGE_DIVISOR == 5

\* any(keyword in line_lower for keyword in keywords)
AnyKeyword(line_lower, keywords) ==
    \E k \in 1..Len(keywords) : Contains(line_lower, keywords[k])

\* line 49
LineLower_noLower(line) == Strip(Lower_identity(line))
LineLower(line) == Strip(Lower(line))

\* lines 61-66
SectionTag_preferredFirst(line) ==
    IF AnyKeyword(LineLower(line), PREFERRED_WORDS) THEN "preferred"
    ELSE IF AnyKeyword(LineLower(line), REQUIRED_WORDS) THEN "required"
    ELSE "general"
SectionTag(line) ==
    IF AnyKeyword(LineLower(line), REQUIRED_WORDS) THEN "required"
    ELSE IF AnyKeyword(LineLower(line), PREFERRED_WORDS) THEN "preferred"
    ELSE "general"

\* The three marker tests of every line a posting can hold, evaluated once
\* per distinct line (split never yields a line outside this set)
PostingLines == LinePool \cup {<<>>}

MarkerTests ==
    [line \in PostingLines |->
        [irrelevant |-> AnyKeyword(LineLower(line), IRRELEVANT_SECTION_KEYWORDS),
         relevant   |-> AnyKeyword(LineLower(line), RELEVANT_SECTION_KEYWORDS),
         tag        |-> SectionTag(line)]]

\* line 52
IsIrrelevant(line) == MarkerTests[line].irrelevant

\* line 57
IsRelevant(line) == MarkerTests[line].relevant

\* lines 52-58: skip_section after the two marker checks
SkipAfter(line, skip) ==
    IF IsIrrelevant(line) THEN TRUE
    ELSE IF IsRelevant(line) THEN FALSE
    ELSE skip

\* lines 52-66: current_section after the two marker checks
TagAfter(line, tag) ==
    IF IsIrrelevant(line) THEN tag
    ELSE IF IsRelevant(line) THEN MarkerTests[line].tag
    ELSE tag

\* lines 52-54, 69: the line is appended to relevant_lines
Emits_headersOnly(line, skip) ==
    /\ ~IsIrrelevant(line)
    /\ IsRelevant(line)
    /\ Strip(line) # <<>>
Emits_ignoreSkip(line, skip) ==
    /\ ~IsIrrelevant(line)
    /\ Strip(line) # <<>>
Emits(line, skip) ==
    /\ ~IsIrrelevant(line)
    /\ ~SkipAfter(line, skip)
    /\ Strip(line) # <<>>

\* lines 94-107
extract_middle_section_lowered(t) ==
    LET ls == NonBlank(SplitOn(Lower(t), "\n"))
    IN  IF Len(ls) < MIN_FALLBACK_LINES THEN Lower(t) ELSE Join("\n", ls)
extract_middle_section(t) ==
    LET ls        == NonBlank(SplitOn(t, "\n"))
        start_idx == Len(ls) \div EDGE_DIVISOR
        end_idx   == Len(ls) - (Len(ls) \div EDGE_DIVISOR)
    IN  IF Len(ls) < MIN_FALLBACK_LINES
        THEN t
        ELSE Join("\n", PySlice(ls, start_idx, end_idx))

\* line 83
NeedsFallback_nonstrict(cleaned) == Len(cleaned) <= MIN_CLEANED_LEN
NeedsFallback(cleaned) == Len(cleaned) < MIN_CLEANED_LEN

\* lines 69-75: the lists the line of this iteration is appended to
AppendedTo(emit, tag) ==
    IF ~emit THEN {}
    ELSE {"relevant"} \cup (IF tag \in {"required", "preferred"} THEN {tag} ELSE {})

NoSections ==
    [cleaned_text |-> <<>>, required_skills |-> <<>>,
     preferred_skills |-> <<>>, full_text |-> <<>>]

\* lines 39-46
JobCall ==
    /\ jpc = "idle"
    /\ \E t \in JobTexts :
          /\ job_text' = t
          /\ lines' = SplitOn(t, "\n")
    /\ line_no' = 1
    /\ relevant_lines' = <<>>
    /\ required_section' = <<>>
    /\ preferred_section' = <<>>
    /\ current_section' = "none"
    /\ skip_section' = FALSE
    /\ scan_log' = <<>>
    /\ jpc' = "scan"
    /\ UNCHANGED job_sections
    /\ UNCHANGED notJobVars

\* lines 48-75: one iteration of the for loop
JobScanLine ==
    /\ jpc = "scan"
    /\ line_no <= Len(lines)
    /\ LET line == lines[line_no]
           tag  == TagAfter(line, current_section)
           emit == Emits(line, skip_section)
       IN  /\ skip_section' = SkipAfter(line, skip_section)
           /\ current_section' = tag
           /\ relevant_lines' =
                 IF emit THEN Append(relevant_lines, line) ELSE relevant_lines
           /\ required_section' =
                 IF emit /\ tag = "required"
                 THEN Append(required_section, line) ELSE required_section
           /\ preferred_section' =
                 IF emit /\ tag = "preferred"
                 THEN Append(preferred_section, line) ELSE preferred_section
           /\ scan_log' = Append(scan_log,
                 [skip |-> SkipAfter(line, skip_section),
                  tag  |-> tag,
                  to   |-> AppendedTo(emit, tag)])
    /\ line_no' = line_no + 1
    /\ UNCHANGED <<job_text, lines, job_sections, jpc>>
    /\ UNCHANGED notJobVars

\* lines 77-91: join, fallback, return
JobReturn ==
    /\ jpc = "scan"
    /\ line_no > Len(lines)
    /\ LET cleaned == Join("\n", relevant_lines)
       IN  job_sections' =
              [cleaned_text     |-> IF NeedsFallback(cleaned)
                                    THEN extract_middle_section(job_text)
                                    ELSE cleaned,
               required_skills  |-> Join("\n", required_section),
               preferred_skills |-> Join("\n", preferred_section),
               full_text        |-> job_text]
    /\ jpc' = "done"
    /\ UNCHANGED <<job_text, lines, line_no, relevant_lines, required_section,
                   preferred_section, current_section, skip_section,
                   scan_log>>
    /\ UNCHANGED notJobVars

JobNext == JobCall \/ JobScanLine \/ JobReturn

----------------------------------------------------------------------------
(* matching/keyword_matcher.py : vocabularies *)

\* keyword_matcher.py:10-42
TECH_SKILLS == {
    <<"a","g","i","l","e">>,
    <<"a","i","r","f","l","o","w">>,
    <<"a","n","s","i","b","l","e">>,
    <<"a","p","i">>,
    <<"a","w","s">>,
    <<"a","z","u","r","e">>,
    <<"b","i","g","q","u","e","r","y">>,
    <<"c","#">>,
    <<"c","+","+">>,
    <<"c","a","s","s","a","n","d","r","a">>,
    <<"c","i","/","c","d">>,
    <<"c","o","m","p","u","t","e","r"," ","v","i","s","i","o","n">>,
    <<"d","a","t","a"," ","a","n","a","l","y","s","i","s">>,
    <<"d","a","t","a"," ","p","i","p","e","l","i","n","e">>,
    <<"d","a","t","a"," ","s","c","i","e","n","c","e">>,
    <<"d","a","t","a"," ","w","a","r","e","h","o","u","s","e">>,
    <<"d","a","t","a","b","r","i","c","k","s">>,
    <<"d","e","e","p"," ","l","e","a","r","n","i","n","g">>,
    <<"d","e","v","o","p","s">>,
    <<"d","j","a","n","g","o">>,
    <<"d","o","c","k","e","r">>,
    <<"d","y","n","a","m","o","d","b">>,
    <<"e","t","l">>,
    <<"e","x","c","e","l">>,
    <<"f","a","s","t","a","p","i">>,
    <<"f","l","a","s","k">>,
    <<"g","c","p">>,
    <<"g","e","n","a","i">>,
    <<"g","e","n","e","r","a","t","i","v","e"," ","a","i">>,
    <<"g","i","t">>,
    <<"g","i","t","h","u","b">>,
    <<"g","o">>,
    <<"g","o","o","g","l","e"," ","c","l","o","u","d">>,
    <<"h","a","d","o","o","p">>,
    <<"h","u","g","g","i","n","g"," ","f","a","c","e">>,
    <<"j","a","v","a">>,
    <<"j","a","v","a","s","c","r","i","p","t">>,
    <<"j","e","n","k","i","n","s">>,
    <<"j","u","p","y","t","e","r">>,
    <<"k","a","f","k","a">>,
    <<"k","e","r","a","s">>,
    <<"k","o","t","l","i","n">>,
    <<"k","u","b","e","r","n","e","t","e","s">>,
    <<"l","a","n","g","c","h","a","i","n">>,
    <<"l","a","r","g","e"," ","l","a","n","g","u","a","g","e"," ","m","o","d","e","l">>,
    <<"l","i","g","h","t","g","b","m">>,
    <<"l","l","m">>,
    <<"m","a","c","h","i","n","e"," ","l","e","a","r","n","i","n","g">>,
    <<"m","i","c","r","o","s","e","r","v","i","c","e","s">>,
    <<"m","l","o","p","s">>,
    <<"m","o","n","g","o","d","b">>,
    <<"m","y","s","q","l">>,
    <<"n","a","t","u","r","a","l"," ","l","a","n","g","u","a","g","e"," ","p","r","o","c","e","s","s","i","n","g">>,
    <<"n","l","p">>,
    <<"n","o","d","e",".","j","s">>,
    <<"n","u","m","p","y">>,
    <<"o","p","e","n","a","i">>,
    <<"o","r","a","c","l","e">>,
    <<"p","a","n","d","a","s">>,
    <<"p","h","p">>,
    <<"p","o","s","t","g","r","e","s","q","l">>,
    <<"p","o","w","e","r"," ","b","i">>,
    <<"p","r","o","m","p","t"," ","e","n","g","i","n","e","e","r","i","n","g">>,
    <<"p","y","t","h","o","n">>,
    <<"p","y","t","o","r","c","h">>,
    <<"r">>,
    <<"r","e","a","c","t">>,
    <<"r","e","d","i","s">>,
    <<"r","e","d","s","h","i","f","t">>,
    <<"r","e","s","t"," ","a","p","i">>,
    <<"r","u","b","y">>,
    <<"r","u","s","t">>,
    <<"s","c","a","l","a">>,
    <<"s","c","i","k","i","t","-","l","e","a","r","n">>,
    <<"s","c","r","u","m">>,
    <<"s","n","o","w","f","l","a","k","e">>,
    <<"s","p","a","r","k">>,
    <<"s","p","r","i","n","g"," ","b","o","o","t">>,
    <<"s","q","l">>,
    <<"s","q","l"," ","s","e","r","v","e","r">>,
    <<"s","t","a","t","i","s","t","i","c","s">>,
    <<"s","w","i","f","t">>,
    <<"t","a","b","l","e","a","u">>,
    <<"t","e","n","s","o","r","f","l","o","w">>,
    <<"t","e","r","r","a","f","o","r","m">>,
    <<"t","y","p","e","s","c","r","i","p","t">>,
    <<"v","e","r","t","e","x"," ","a","i">>,
    <<"x","g","b","o","o","s","t">>
}

\* keyword_matcher.py:45-47
EDUCATION_LEVELS == {
    <<"b","a">>,
    <<"b","a","c","h","e","l","o","r">>,
    <<"b","a","c","h","e","l","o","r","s">>,
    <<"b","s">>,
    <<"d","o","c","t","o","r","a","t","e">>,
    <<"m","a","s","t","e","r">>,
    <<"m","a","s","t","e","r","s">>,
    <<"m","b","a">>,
    <<"m","s">>,
    <<"p","h","d">>
}

\* keyword_matcher.py:50-52
EXPERIENCE_KEYWORDS == {
    <<"e","n","t","r","y"," ","l","e","v","e","l">>,
    <<"i","n","t","e","r","n">>,
    <<"i","n","t","e","r","n","s","h","i","p">>,
    <<"j","u","n","i","o","r">>,
    <<"l","e","a","d">>,
    <<"m","i","d"," ","l","e","v","e","l">>,
    <<"p","r","i","n","c","i","p","a","l">>,
    <<"s","e","n","i","o","r">>
}

----------------------------------------------------------------------------
(* matching/keyword_matcher.py : extract_keywords(text) *)

Digits == <<"0","1","2","3","4","5","6","7","8","9">>

\* the characters the regex class \w matches
WordChars ==
    { LowerChars[i] : i \in 1..26 } \cup { UpperChars[i] : i \in 1..26 }
        \cup { Digits[i] : i \in 1..10 } \cup {"_"}

\* s[p] exists and is a word character (p counted from 1)
IsWordAt(s, p) == p >= 1 /\ p <= Len(s) /\ s[p] \in WordChars

\* regex \b between s[p] and s[p + 1]: a word character on exactly one
\* side, the edges of the string counting as non-word
WordBoundary(s, p) == IsWordAt(s, p) # IsWordAt(s, p + 1)

\* lines 73, 79, 85: re.search(r'\b' + re.escape(entry) + r'\b', s)
SearchWord(s, entry) ==
    \E i \in 0..(Len(s) - Len(entry)) :
       /\ s[i + 1] = entry[1]
       /\ SubSeq(s, i + 1, i + Len(entry)) = entry
       /\ WordBoundary(s, i)
       /\ WordBoundary(s, i + Len(entry))

\* lines 55-92
extract_keywords(t) ==
    LET text_lower == Lower(t)
    IN  [technical_skills |-> { v \in TECH_SKILLS : SearchWord(text_lower, v) },
         education        |-> { v \in EDUCATION_LEVELS : SearchWord(text_lower, v) },
         experience_level |-> { v \in EXPERIENCE_KEYWORDS : SearchWord(text_lower, v) }]

\* Texts given to extract_keywords: up to MaxTokens pieces written one
\* after the other
MaxTokens == 3

KeywordTokens == {
    <<"C","+","+">>,
    <<"C","#">>,
    <<"j","a","v","a">>,
    <<"s","c","r","i","p","t">>,
    <<" ">>,
    <<"S","Q","L">>,
    <<"s","e","r","v","e","r">>,
    <<"M","S">>,
    <<"l","e","a","d">>
}

RECURSIVE Concat(_)
Concat(list) == IF list = <<>> THEN <<>> ELSE Head(list) \o Concat(Tail(list))

KeywordTexts ==
    { Concat(ts) : ts \in UNION { [1..n -> KeywordTokens] : n \in 0..MaxTokens } }

NoKeywords == [technical_skills |-> {}, education |-> {}, experience_level |-> {}]

\* extract_keywords(text), entry to return
ExtractCall ==
    /\ kpc = "idle"
    /\ \E t \in KeywordTexts :
          /\ kw_text' = t
          /\ kw_found' = extract_keywords(t)
    /\ kpc' = "done"
    /\ UNCHANGED notKwVars

KwIdle ==
    /\ kw_text = <<>>
    /\ kw_found = NoKeywords
    /\ kpc = "idle"

KwNext == ExtractCall

----------------------------------------------------------------------------
(* matching/similarity.py : rank_resumes(job_index, top_k) *)

MaxRanked == 4
MaxTopK   == 3

\* similarities of the stored resume chunks, in row order (lines 27-30), as
\* integer multiples of one score unit
RankScoreLists == UNION { [1..n -> 0..MaxScore] : n \in 1..MaxRanked }

\* line 31: sort_values("score", ascending=False) sorts with pandas' default
\* kind, quicksort, which is not a stable sort: the rows come out by
\* descending score, rows of equal score in any order
DescendingOrders(scores) ==
    { p \in Permutations(1..Len(scores)) :
         \A i, j \in 1..Len(scores) : i < j => scores[p[i]] >= scores[p[j]] }

\* line 31: the rows in the order the sort left them, cut by head(top_k)
rank_resumes(scores, top_k, order) ==
    PySlice([i \in 1..Len(scores) |-> Scored(scores)[order[i]]], 0, top_k)

\* rank_resumes, entry to return
RankCall ==
    /\ rpc = "idle"
    /\ \E scores \in RankScoreLists, k \in 0..MaxTopK :
          \E order \in DescendingOrders(scores) :
             /\ rank_scores' = scores
             /\ rank_top_k' = k
             /\ ranked' = rank_resumes(scores, k, order)
    /\ rpc' = "done"
    /\ UNCHANGED notRankVars

RankIdle ==
    /\ rank_scores = <<>>
    /\ rank_top_k = 0
    /\ ranked = <<>>
    /\ rpc = "idle"

RankNext == RankCall

----------------------------------------------------------------------------
(* Exact arithmetic on scores: <<n, d>> is n / d *)

RECURSIVE GCD(_, _)
GCD(a, b) == IF b = 0 THEN a ELSE GCD(b, a % b)

\* lowest terms, positive denominator; a zero denominator (a division by
\* zero) is kept as it is
Reduce(q) ==
    IF q[2] = 0 THEN q
    ELSE LET g == GCD(IF q[1] < 0 THEN -q[1] ELSE q[1],
                      IF q[2] < 0 THEN -q[2] ELSE q[2])
             sign == IF q[2] < 0 THEN -1 ELSE 1
         IN  <<sign * (q[1] \div g), sign * (q[2] \div g)>>

RatAdd(a, b) == Reduce(<<a[1] * b[2] + b[1] * a[2], a[2] * b[2]>>)
RatMul(a, b) == Reduce(<<a[1] * b[1], a[2] * b[2]>>)
\* comparisons, for positive denominators
RatEq(a, b)   == a[1] * b[2] = b[1] * a[2]
RatLess(a, b) == a[1] * b[2] < b[1] * a[2]
RatLeq(a, b)  == a[1] * b[2] <= b[1] * a[2]

----------------------------------------------------------------------------
(* matching/keyword_matcher.py :                                           *)
(* calculate_keyword_match(resume_keywords, job_keywords, job_sections)    *)

\* line 121: the 0.7 of int(len(all_job_skills) * 0.7), as 7 / 10
SPLIT_SHARE == <<7, 10>>
\* line 136: required_score when no skill is required
NEUTRAL_REQUIRED == <<4, 5>>
\* line 141: preferred_score when no skill is preferred
PERFECT_PREFERRED == <<1, 1>>
\* line 144: the weights of required_score and preferred_score
REQUIRED_WEIGHT == <<4, 5>>
PREFERRED_WEIGHT == <<1, 5>>
\* line 151: the number of missing required skills the penalty starts above
MISSING_LIMIT == 3
\* line 152
PENALTY_FACTOR == <<17, 20>>
\* lines 157, 162
FULL_SCORE == <<1, 1>>
EDUCATION_DEFAULT == <<1, 2>>
EXPERIENCE_DEFAULT == <<7, 10>>
\* lines 165-169
OVERALL_WEIGHTS == [technical |-> <<7, 10>>, education |-> <<1, 5>>,
                    experience |-> <<1, 10>>]

\* line 121: int(n * 0.7); the float product truncates to (7 * n) div 10
\* for every n up to the 88 entries of TECH_SKILLS
SplitPoint_half(n) == n \div 2
SplitPoint(n) == (SPLIT_SHARE[1] * n) \div SPLIT_SHARE[2]

\* lines 120-123: list(job_skills) lists a set of str in an order the
\* language does not fix (it varies with the per-process hash seed), so the
\* first split_point elements can be any split_point of the skills
SplitHeads(job_skills) ==
    { head \in SUBSET job_skills :
         Cardinality(head) = SplitPoint(Cardinality(job_skills)) }

\* lines 126-141: the share of the wanted skills the resume has, or the
\* default when none is wanted
SkillScore_unguarded(resume_skills, wanted, default) ==
    <<Cardinality(resume_skills \cap wanted), Cardinality(wanted)>>
SkillScore(resume_skills, wanted, default) ==
    IF wanted # {}
    THEN <<Cardinality(resume_skills \cap wanted), Cardinality(wanted)>>
    ELSE default

\* line 144
TechnicalScore_unweighted(rs, ps) == RatAdd(rs, ps)
TechnicalScore(rs, ps) ==
    RatAdd(RatMul(REQUIRED_WEIGHT, rs), RatMul(PREFERRED_WEIGHT, ps))

\* line 151
PenaltyApplies_atLimit(missing_required) ==
    Cardinality(missing_required) >= MISSING_LIMIT
PenaltyApplies(missing_required) ==
    Cardinality(missing_required) > MISSING_LIMIT

\* lines 157, 162
LevelScore_bothPresent(resume_levels, job_levels, default) ==
    IF resume_levels # {} /\ job_levels # {} THEN FULL_SCORE ELSE default
LevelScore(resume_levels, job_levels, default) ==
    IF resume_levels # {} /\ job_levels # {}
       /\ resume_levels \cap job_levels # {}
    THEN FULL_SCORE
    ELSE default

\* lines 165-169
OverallScore(technical, education, experience) ==
    RatAdd(RatAdd(RatMul(OVERALL_WEIGHTS.technical, technical),
                  RatMul(OVERALL_WEIGHTS.education, education)),
           RatMul(OVERALL_WEIGHTS.experience, experience))

\* sorted(list of str): ascending by code point, character by character
CharOrder == <<" ","#","+","-",".","/">> \o Digits \o UpperChars \o <<"_">>
                 \o LowerChars

CodePoint == [c \in { CharOrder[i] : i \in 1..Len(CharOrder) } |->
                 CHOOSE i \in 1..Len(CharOrder) : CharOrder[i] = c]

RECURSIVE StrLess(_, _)
StrLess(a, b) ==
    IF b = <<>> THEN FALSE
    ELSE IF a = <<>> THEN TRUE
    ELSE IF Head(a) = Head(b) THEN StrLess(Tail(a), Tail(b))
    ELSE CodePoint[Head(a)] < CodePoint[Head(b)]

RECURSIVE Sorted_descending(_)
Sorted_descending(S) ==
    IF S = {} THEN <<>>
    ELSE LET most == CHOOSE x \in S : \A y \in S : x = y \/ StrLess(y, x)
         IN  <<most>> \o Sorted_descending(S \ {most})

RECURSIVE Sorted(_)
Sorted(S) ==
    IF S = {} THEN <<>>
    ELSE LET least == CHOOSE x \in S : \A y \in S : x = y \/ StrLess(x, y)
         IN  <<least>> \o Sorted(S \ {least})

\* Skills the resumes and postings of the model mention, all of TECH_SKILLS
SkillList == <<
    <<"p","y","t","h","o","n">>,
    <<"s","q","l">>,
    <<"j","a","v","a">>,
    <<"a","w","s">>,
    <<"d","o","c","k","e","r">>,
    <<"g","i","t">>,
    <<"s","p","a","r","k">>,
    <<"k","a","f","k","a">>
>>

MaxSkills    == 5
MaxPreferred == 2

\* skills of resumes, flat job skill sets and required sections
SkillPool == { SkillList[i] : i \in 1..MaxSkills }
\* skills of preferred sections: the last of SkillPool and the ones after it
PreferredPool == { SkillList[i] : i \in MaxSkills..(MaxSkills + MaxPreferred - 1) }

EduPool == { <<"b","s">>, <<"m","s">> }
ExpPool == { <<"s","e","n","i","o","r">>, <<"l","e","a","d">> }

\* a section text as extract_requirements_section joins it: one line per
\* skill
SkillLines(S) == Join("\n", SelectSeq(SkillList, LAMBDA v : v \in S))

SectionTexts == { SkillLines(S) : S \in SUBSET (SkillPool \cup PreferredPool) }

\* lines 113-114: extract_keywords of each section text, evaluated once per
\* distinct text
SectionKeywords == [t \in SectionTexts |-> extract_keywords(t)]

Keywords(skills, edu, exp) ==
    [technical_skills |-> skills, education |-> edu, experience_level |-> exp]

\* job_sections=None
NoJobSections ==
    [given |-> FALSE, required_skills |-> <<>>, preferred_skills |-> <<>>]

\* calls without job_sections: any resume skills against any job skills
FlatInputs ==
    { [resume_keywords |-> Keywords(r, {}, {}),
       job_keywords    |-> Keywords(j, {}, {}),
       job_sections    |-> NoJobSections] :
          r \in SUBSET SkillPool, j \in SUBSET SkillPool }

\* calls with job_sections: the job's skills are those of its two sections
\* or, when all is TRUE, every skill of the model
SectionInputs ==
    { [resume_keywords |-> Keywords(r, {}, {}),
       job_keywords    |-> Keywords(IF all THEN SkillPool \cup PreferredPool
                                    ELSE rq \cup pf, {}, {}),
       job_sections    |-> [given |-> TRUE,
                            required_skills  |-> SkillLines(rq),
                            preferred_skills |-> SkillLines(pf)]] :
          r \in SUBSET SkillPool, rq \in SUBSET SkillPool,
          pf \in SUBSET PreferredPool, all \in BOOLEAN }

\* calls that vary the education and experience levels of both sides
LevelInputs ==
    { [resume_keywords |-> Keywords({}, re, rx),
       job_keywords    |-> Keywords({}, je, jx),
       job_sections    |-> NoJobSections] :
          re \in SUBSET EduPool, je \in SUBSET EduPool,
          rx \in SUBSET ExpPool, jx \in SUBSET ExpPool }

MatchInputs == FlatInputs \cup SectionInputs \cup LevelInputs

NoScore == <<0, 1>>

NoMatchResult ==
    [technical_score |-> NoScore, required_skill_score |-> NoScore,
     preferred_skill_score |-> NoScore, education_score |-> NoScore,
     experience_score |-> NoScore, overall_keyword_score |-> NoScore,
     matched_skills |-> <<>>, missing_skills |-> <<>>,
     missing_required |-> <<>>, missing_preferred |-> <<>>]

\* lines 108-123: the arguments, and the required / preferred skill sets
MatchCall ==
    /\ mpc = "idle"
    /\ \E inp \in MatchInputs :
          /\ resume_keywords' = inp.resume_keywords
          /\ job_keywords' = inp.job_keywords
          /\ km_job_sections' = inp.job_sections
          /\ IF inp.job_sections.given
             THEN /\ required_skills' =
                        SectionKeywords[inp.job_sections.required_skills].technical_skills
                  /\ preferred_skills' =
                        SectionKeywords[inp.job_sections.preferred_skills].technical_skills
             ELSE \E head \in SplitHeads(inp.job_keywords.technical_skills) :
                     /\ required_skills' = head
                     /\ preferred_skills' =
                           inp.job_keywords.technical_skills \ head
    /\ mpc' = "split"
    /\ UNCHANGED <<required_score, preferred_score, technical_score, match_result>>
    /\ UNCHANGED notMatchVars

\* lines 126-144: the two skill scores and the weighted technical score
MatchScore ==
    /\ mpc = "split"
    /\ LET rs == SkillScore(resume_keywords.technical_skills, required_skills,
                            NEUTRAL_REQUIRED)
           ps == SkillScore(resume_keywords.technical_skills, preferred_skills,
                            PERFECT_PREFERRED)
       IN  /\ required_score' = rs
           /\ preferred_score' = ps
           /\ technical_score' = TechnicalScore(rs, ps)
    /\ mpc' = "scored"
    /\ UNCHANGED <<resume_keywords, job_keywords, km_job_sections,
                   required_skills, preferred_skills, match_result>>
    /\ UNCHANGED notMatchVars

\* lines 150-152: the penalty for many missing required skills
MatchPenalty ==
    /\ mpc = "scored"
    /\ technical_score' =
          IF PenaltyApplies(required_skills \ resume_keywords.technical_skills)
          THEN RatMul(technical_score, PENALTY_FACTOR)
          ELSE technical_score
    /\ mpc' = "penalized"
    /\ UNCHANGED <<resume_keywords, job_keywords, km_job_sections,
                   required_skills, preferred_skills, required_score,
                   preferred_score, match_result>>
    /\ UNCHANGED notMatchVars

\* lines 146-148, 154-182: the level scores and the returned dict
MatchReturn ==
    /\ mpc = "penalized"
    /\ LET resume_skills     == resume_keywords.technical_skills
           missing_required  == required_skills \ resume_skills
           missing_preferred == preferred_skills \ resume_skills
           education_score   == LevelScore(resume_keywords.education,
                                           job_keywords.education,
                                           EDUCATION_DEFAULT)
           experience_score  == LevelScore(resume_keywords.experience_level,
                                           job_keywords.experience_level,
                                           EXPERIENCE_DEFAULT)
       IN  match_result' =
              [technical_score       |-> technical_score,
               required_skill_score  |-> required_score,
               preferred_skill_score |-> preferred_score,
               education_score       |-> education_score,
               experience_score      |-> experience_score,
               overall_keyword_score |->
                   OverallScore(technical_score, education_score, experience_score),
               matched_skills    |-> Sorted((resume_skills \cap required_skills)
                                        \cup (resume_skills \cap preferred_skills)),
               missing_skills    |-> Sorted(missing_required \cup missing_preferred),
               missing_required  |-> Sorted(missing_required),
               missing_preferred |-> Sorted(missing_preferred)]
    /\ mpc' = "done"
    /\ UNCHANGED <<resume_keywords, job_keywords, km_job_sections,
                   required_skills, preferred_skills, required_score,
                   preferred_score, technical_score>>
    /\ UNCHANGED notMatchVars

MatchIdle ==
    /\ resume_keywords = NoKeywords
    /\ job_keywords = NoKeywords
    /\ km_job_sections = NoJobSections
    /\ required_skills = {}
    /\ preferred_skills = {}
    /\ required_score = NoScore
    /\ preferred_score = NoScore
    /\ technical_score = NoScore
    /\ match_result = NoMatchResult
    /\ mpc = "idle"

MatchNext == MatchCall \/ MatchScore \/ MatchPenalty \/ MatchReturn

----------------------------------------------------------------------------
(* matching/hybrid_scorer.py :                                             *)
(* calculate_hybrid_score(semantic_score, keyword_match_results, top_chunks) *)

\* lines 28-30: the default of the three .get calls
DEFAULT_SCORE == <<1, 2>>
\* line 34
SEMANTIC_BOOST == <<9, 5>>
BOOST_CAP == <<1, 1>>
\* lines 42-47
HYBRID_WEIGHTS == [technical |-> <<2, 5>>, semantic |-> <<3, 10>>,
                   experience |-> <<1, 5>>, education |-> <<1, 10>>]
\* lines 52-53
CROSS_SEMANTIC_ABOVE == <<2, 5>>
CROSS_TECHNICAL_BELOW == <<1, 2>>
CROSS_BONUS == <<1, 20>>
\* lines 56-71: the inclusive lower bounds and what each category carries
\* (the icons are named here, the source holds the emoji)
MATCH_CATEGORIES == <<
    [from |-> <<7, 10>>, category |-> "Excellent Match", icon |-> "fire",
     recommendation |-> "Strong candidate - Recommend immediate interview"],
    [from |-> <<11, 20>>, category |-> "Good Match", icon |-> "check",
     recommendation |-> "Solid candidate - Review in detail"],
    [from |-> <<2, 5>>, category |-> "Moderate Match", icon |-> "warning",
     recommendation |-> "Some gaps exist - Consider with reservations"]
>>
LOW_MATCH ==
    [category |-> "Low Match", icon |-> "cross",
     recommendation |-> "Significant gaps - May not be suitable"]

\* a key the dict does not hold
Absent == <<>>

\* dict.get(key, default)
Get(value, default) == IF value = Absent THEN default ELSE value

\* line 34: min(semantic_score * 1.8, 1.0)
Boosted_uncapped(s) == RatMul(s, SEMANTIC_BOOST)
Boosted(s) ==
    LET b == RatMul(s, SEMANTIC_BOOST)
    IN  IF RatLess(b, BOOST_CAP) THEN b ELSE BOOST_CAP

\* lines 42-47
Fused(technical, semantic, experience, education) ==
    RatAdd(RatAdd(RatAdd(RatMul(HYBRID_WEIGHTS.technical, technical),
                         RatMul(HYBRID_WEIGHTS.semantic, semantic)),
                  RatMul(HYBRID_WEIGHTS.experience, experience)),
           RatMul(HYBRID_WEIGHTS.education, education))

\* line 52
CrossDomain_anyTechnical(semantic, technical) ==
    RatLess(CROSS_SEMANTIC_ABOVE, semantic)
CrossDomain_nonstrict(semantic, technical) ==
    /\ RatLeq(CROSS_SEMANTIC_ABOVE, semantic)
    /\ RatLeq(technical, CROSS_TECHNICAL_BELOW)
CrossDomain(semantic, technical) ==
    /\ RatLess(CROSS_SEMANTIC_ABOVE, semantic)
    /\ RatLess(technical, CROSS_TECHNICAL_BELOW)

\* lines 56-71: the first category whose lower bound the score reaches
MatchCategory_exclusive(score) ==
    IF \E i \in 1..Len(MATCH_CATEGORIES) : RatLess(MATCH_CATEGORIES[i].from, score)
    THEN LET i == CHOOSE i \in 1..Len(MATCH_CATEGORIES) :
                     /\ RatLess(MATCH_CATEGORIES[i].from, score)
                     /\ \A j \in 1..(i - 1) : ~RatLess(MATCH_CATEGORIES[j].from, score)
         IN  [category       |-> MATCH_CATEGORIES[i].category,
              icon           |-> MATCH_CATEGORIES[i].icon,
              recommendation |-> MATCH_CATEGORIES[i].recommendation]
    ELSE LOW_MATCH
MatchCategory(score) ==
    IF \E i \in 1..Len(MATCH_CATEGORIES) : RatLeq(MATCH_CATEGORIES[i].from, score)
    THEN LET i == CHOOSE i \in 1..Len(MATCH_CATEGORIES) :
                     /\ RatLeq(MATCH_CATEGORIES[i].from, score)
                     /\ \A j \in 1..(i - 1) : ~RatLeq(MATCH_CATEGORIES[j].from, score)
         IN  [category       |-> MATCH_CATEGORIES[i].category,
              icon           |-> MATCH_CATEGORIES[i].icon,
              recommendation |-> MATCH_CATEGORIES[i].recommendation]
    ELSE LOW_MATCH

\* Arguments of the model's calls: scores on a grid of SemSteps-ths
\* (cosine similarities, one of them negative) and TechSteps-ths
SemSteps  == 18
TechSteps == 10

SemanticScores == { Reduce(<<k, SemSteps>>) : k \in (-1)..SemSteps }
TechnicalScores == { Reduce(<<k, TechSteps>>) : k \in 0..TechSteps }

\* the skill lists calculate_keyword_match returns, or none of the four keys
SkillListSamples ==
    { [matched_skills |-> Absent, missing_skills |-> Absent,
       missing_required |-> Absent, missing_preferred |-> Absent],
      [matched_skills |-> <<SkillList[1]>>, missing_skills |-> <<SkillList[2], SkillList[3]>>,
       missing_required |-> <<SkillList[2]>>, missing_preferred |-> <<SkillList[3]>>] }

KeywordResults ==
    { [technical_score  |-> t, education_score |-> e, experience_score |-> x,
       lists |-> l] :
          t \in TechnicalScores \cup {Absent},
          e \in {EDUCATION_DEFAULT, FULL_SCORE, Absent},
          x \in {EXPERIENCE_DEFAULT, FULL_SCORE, Absent},
          l \in SkillListSamples }

HsTechnical == Get(keyword_match_results.technical_score, DEFAULT_SCORE)
HsEducation == Get(keyword_match_results.education_score, DEFAULT_SCORE)
HsExperience == Get(keyword_match_results.experience_score, DEFAULT_SCORE)

NoBreakdown ==
    [hybrid_score |-> NoScore, semantic_score |-> NoScore,
     raw_semantic_score |-> NoScore, technical_score |-> NoScore,
     education_score |-> NoScore, experience_score |-> NoScore,
     match_category |-> "", match_icon |-> "", recommendation |-> "",
     section_scores |-> <<>>, matched_skills |-> <<>>, missing_skills |-> <<>>,
     missing_required |-> <<>>, missing_preferred |-> <<>>]

\* lines 28-47: the sub-scores, the boost and the weighted sum
HybridCall ==
    /\ hpc = "idle"
    /\ \E s \in SemanticScores, k \in KeywordResults :
          /\ hs_semantic_score' = s
          /\ keyword_match_results' = k
          /\ boosted_semantic' = Boosted(s)
          /\ hybrid_score' =
                Fused(Get(k.technical_score, DEFAULT_SCORE), Boosted(s),
                      Get(k.experience_score, DEFAULT_SCORE),
                      Get(k.education_score, DEFAULT_SCORE))
    /\ hpc' = "fused"
    /\ UNCHANGED score_breakdown
    /\ UNCHANGED notHybridVars

\* lines 52-53: the cross-domain boost
HybridAdjust ==
    /\ hpc = "fused"
    /\ hybrid_score' =
          IF CrossDomain(boosted_semantic, HsTechnical)
          THEN RatAdd(hybrid_score, CROSS_BONUS)
          ELSE hybrid_score
    /\ hpc' = "adjusted"
    /\ UNCHANGED <<hs_semantic_score, keyword_match_results, boosted_semantic,
                   score_breakdown>>
    /\ UNCHANGED notHybridVars

\* lines 56-96: the category and the returned dict
HybridReturn ==
    /\ hpc = "adjusted"
    /\ LET match == MatchCategory(hybrid_score)
           lists == keyword_match_results.lists
       IN  score_breakdown' =
              [hybrid_score       |-> hybrid_score,
               semantic_score     |-> boosted_semantic,
               raw_semantic_score |-> hs_semantic_score,
               technical_score    |-> HsTechnical,
               education_score    |-> HsEducation,
               experience_score   |-> HsExperience,
               match_category     |-> match.category,
               match_icon         |-> match.icon,
               recommendation     |-> match.recommendation,
               section_scores     |-> <<HsTechnical, boosted_semantic,
                                        HsExperience, HsEducation>>,
               matched_skills     |-> Get(lists.matched_skills, <<>>),
               missing_skills     |-> Get(lists.missing_skills, <<>>),
               missing_required   |-> Get(lists.missing_required, <<>>),
               missing_preferred  |-> Get(lists.missing_preferred, <<>>)]
    /\ hpc' = "done"
    /\ UNCHANGED <<hs_semantic_score, keyword_match_results, boosted_semantic,
                   hybrid_score>>
    /\ UNCHANGED notHybridVars

HybridIdle ==
    /\ hs_semantic_score = NoScore
    /\ keyword_match_results =
          [technical_score |-> Absent, education_score |-> Absent,
           experience_score |-> Absent,
           lists |-> [matched_skills |-> Absent, missing_skills |-> Absent,
                      missing_required |-> Absent, missing_preferred |-> Absent]]
    /\ boosted_semantic = NoScore
    /\ hybrid_score = NoScore
    /\ score_breakdown = NoBreakdown
    /\ hpc = "idle"

HybridNext == HybridCall \/ HybridAdjust \/ HybridReturn

----------------------------------------------------------------------------
(* ingestion/pdf_parser.py : extract_text_from_pdf(pdf_file)               *)
(* ingestion/process_resume.py : get_embedding_model,                      *)
(* process_uploaded_resume(pdf_file), process_job_description(job_text)    *)

\* Python's None where a text is expected (no text is equal to it)
None == <<"None">>

\* pdf_parser.py:20, process_resume.py:51 and :100: the least lengths
MIN_PDF_CHARS == 50
MIN_RESUME_CHARS == 50
MIN_JOB_CHARS == 20
\* process_resume.py:58
RESUME_CHUNK_SIZE == 200
RESUME_CHUNK_OVERLAP == 75

\* line 54: "Could not extract sufficient text from PDF"
INSUFFICIENT_TEXT ==
    <<"C","o","u","l","d"," ","n","o","t"," ","e","x","t","r","a","c","t",
      " ","s","u","f","f","i","c","i","e","n","t"," ","t","e","x","t"," ",
      "f","r","o","m"," ","P","D","F">>

\* line 63: "Text chunking failed"
CHUNKING_FAILED ==
    <<"T","e","x","t"," ","c","h","u","n","k","i","n","g"," ","f","a","i",
      "l","e","d">>

\* line 81, the prefix of the f-string: "Processing failed: "
PROCESSING_FAILED ==
    <<"P","r","o","c","e","s","s","i","n","g"," ","f","a","i","l","e","d",
      ":"," ">>

\* line 103: "Job description is too short"
JOB_TOO_SHORT ==
    <<"J","o","b"," ","d","e","s","c","r","i","p","t","i","o","n"," ","i",
      "s"," ","t","o","o"," ","s","h","o","r","t">>

\* line 118, the prefix of the f-string: "Embedding failed: "
EMBEDDING_FAILED ==
    <<"E","m","b","e","d","d","i","n","g"," ","f","a","i","l","e","d",":",
      " ">>

\* n copies of a character
Rep(c, n) == [i \in 1..n |-> c]

\* pdf_parser.py:11-16: the pages that yield text, whitespace collapsed
RECURSIVE PagesText(_)
PagesText(pages) ==
    IF pages = <<>> THEN <<>>
    ELSE (IF Head(pages) # None /\ Head(pages) # <<>>
          THEN <<Join(" ", Split(Head(pages)))>>
          ELSE <<>>) \o PagesText(Tail(pages))

\* pdf_parser.py:7-27: None when the reader raises or the text is short
extract_text_from_pdf(pdf_file) ==
    IF ~pdf_file.readable THEN None
    ELSE LET full_text == Join("\n", PagesText(pdf_file.pages))
         IN  IF Len(Strip(full_text)) < MIN_PDF_CHARS THEN None ELSE full_text

\* process_resume.py:51 and :100: not text or len(text.strip()) < least
TooShort_noStrip(t, least) == t = None \/ t = <<>> \/ Len(t) < least
TooShort(t, least) == t = None \/ t = <<>> \/ Len(Strip(t)) < least

\* chunking.py:15-30 as a function of its arguments
RECURSIVE ChunksFrom(_, _, _, _)
ChunksFrom(ws, st, cs, ov) ==
    IF ~LoopCond(st, ws) THEN <<>>
    ELSE <<ChunkAt(ws, st, cs)>>
         \o (IF BreakGuard(cs, ov) THEN <<>>
             ELSE ChunksFrom(ws, NextStart(st, cs, ov), cs, ov))

chunk_text(t, cs, ov) == ChunksFrom(Split(t), 0, cs, ov)

\* the requests (script runs) of one process
MaxRequests == 2
Requests == 1..MaxRequests

\* uploaded files: one the reader cannot open, and pages of text around
\* the 50-character limit (a page may yield no text)
ResumeFiles ==
    { [readable |-> FALSE, pages |-> <<>>],
      [readable |-> TRUE, pages |-> <<>>],
      [readable |-> TRUE, pages |-> <<Rep("x", 49)>>],
      [readable |-> TRUE,
       pages |-> <<(<<" ">> \o Rep("x", 24) \o <<" ", "\n">> \o Rep("x", 25))>>],
      [readable |-> TRUE, pages |-> <<Rep("x", 24), None, Rep("x", 24)>>],
      [readable |-> TRUE, pages |-> <<Rep("x", 25), <<>>, Rep("x", 24)>>] }

\* job descriptions around the 20-character limit, and none
JobDescriptions ==
    { None, <<>>, Rep(" ", 25),
      <<" ", " ">> \o Rep("x", 19) \o <<" ">>,
      Rep("x", 20),
      Rep("x", 10) \o <<" ">> \o Rep("x", 10) }

\* str(e) of the exceptions the reader and the model raise
ErrorTexts == { <<>>, <<"O","O","M">> }

\* _model is None, and the instances SentenceTransformer(...) returns
NoModel == 0

NoResult ==
    [success |-> FALSE, error |-> <<>>, text |-> Absent, chunks |-> Absent,
     embeddings |-> Absent, embedding |-> Absent]

Failure(message) ==
    [success |-> FALSE, error |-> message, text |-> Absent, chunks |-> Absent,
     embeddings |-> Absent, embedding |-> Absent]

\* lines 78-82 and 115-119: except Exception as e
Caught(op, e) ==
    Failure((IF op = "resume" THEN PROCESSING_FAILED ELSE EMBEDDING_FAILED) \o e)

NoRequest ==
    [op |-> "", text |-> None, chunks |-> <<>>, model |-> NoModel,
     encodes |-> 0, raised |-> FALSE, result |-> NoResult, pc |-> "idle"]

\* lines 47-64: extraction, the length test and the chunking
ProcessResumeCall(r) ==
    /\ requests[r].pc = "idle"
    /\ \E pdf_file \in ResumeFiles :
          LET t == extract_text_from_pdf(pdf_file)
              cs == chunk_text(t, RESUME_CHUNK_SIZE, RESUME_CHUNK_OVERLAP)
          IN  requests' = [requests EXCEPT ![r] =
                 IF TooShort(t, MIN_RESUME_CHARS)
                 THEN [@ EXCEPT !.op = "resume", !.text = t,
                                !.result = Failure(INSUFFICIENT_TEXT),
                                !.pc = "done"]
                 ELSE IF cs = <<>>
                 THEN [@ EXCEPT !.op = "resume", !.text = t,
                                !.result = Failure(CHUNKING_FAILED),
                                !.pc = "done"]
                 ELSE [@ EXCEPT !.op = "resume", !.text = t, !.chunks = cs,
                                !.pc = "test"]]
    /\ UNCHANGED <<_model, instances>>
    /\ UNCHANGED notProcVars

\* lines 99-104: the length test
ProcessJobCall(r) ==
    /\ requests[r].pc = "idle"
    /\ \E t \in JobDescriptions :
          requests' = [requests EXCEPT ![r] =
             IF TooShort(t, MIN_JOB_CHARS)
             THEN [@ EXCEPT !.op = "job", !.text = t,
                            !.result = Failure(JOB_TOO_SHORT), !.pc = "done"]
             ELSE [@ EXCEPT !.op = "job", !.text = t, !.pc = "test"]]
    /\ UNCHANGED <<_model, instances>>
    /\ UNCHANGED notProcVars

\* line 24: if _model is None
GetModelTest(r) ==
    /\ requests[r].pc = "test"
    /\ requests' = [requests EXCEPT ![r].pc =
                       IF _model = NoModel THEN "construct" ELSE "return"]
    /\ UNCHANGED <<_model, instances>>
    /\ UNCHANGED notProcVars

\* line 27: a new instance is built and stored in the global
GetModelConstruct(r) ==
    /\ requests[r].pc = "construct"
    /\ instances' = instances + 1
    /\ _model' = instances + 1
    /\ requests' = [requests EXCEPT ![r].pc = "return"]
    /\ UNCHANGED notProcVars

\* line 27: the constructor raises, the caller's except clause returns
GetModelRaises(r) ==
    /\ requests[r].pc = "construct"
    /\ \E e \in ErrorTexts :
          requests' = [requests EXCEPT ![r] =
             [@ EXCEPT !.raised = TRUE, !.result = Caught(requests[r].op, e),
                       !.pc = "done"]]
    /\ UNCHANGED <<_model, instances>>
    /\ UNCHANGED notProcVars

\* line 28: return _model, into the caller's model (lines 67, 106)
GetModelReturn(r) ==
    /\ requests[r].pc = "return"
    /\ requests' = [requests EXCEPT ![r] =
                       [@ EXCEPT !.model = _model, !.pc = "encode"]]
    /\ UNCHANGED <<_model, instances>>
    /\ UNCHANGED notProcVars

\* lines 68-76 and 107-113: model.encode and the success result
Encode(r) ==
    /\ requests[r].pc = "encode"
    /\ requests' = [requests EXCEPT ![r] =
          [@ EXCEPT !.encodes = @ + 1,
                    !.result =
                       IF requests[r].op = "resume"
                       THEN [success |-> TRUE, error |-> None,
                             text |-> requests[r].text,
                             chunks |-> requests[r].chunks,
                             embeddings |-> [by |-> requests[r].model,
                                             of |-> requests[r].chunks],
                             embedding |-> Absent]
                       ELSE [success |-> TRUE, error |-> None,
                             text |-> Absent, chunks |-> Absent,
                             embeddings |-> Absent,
                             embedding |-> [by |-> requests[r].model,
                                            of |-> requests[r].text]],
                    !.pc = "done"]]
    /\ UNCHANGED <<_model, instances>>
    /\ UNCHANGED notProcVars

\* lines 68 and 107: model.encode raises, the except clause returns
EncodeRaises(r) ==
    /\ requests[r].pc = "encode"
    /\ \E e \in ErrorTexts :
          requests' = [requests EXCEPT ![r] =
             [@ EXCEPT !.encodes = @ + 1, !.raised = TRUE,
                       !.result = Caught(requests[r].op, e), !.pc = "done"]]
    /\ UNCHANGED <<_model, instances>>
    /\ UNCHANGED notProcVars

ProcIdle ==
    /\ requests = [r \in Requests |-> NoRequest]
    /\ _model = NoModel
    /\ instances = 0

ProcNext ==
    \E r \in Requests :
        \/ ProcessResumeCall(r) \/ ProcessJobCall(r)
        \/ GetModelTest(r) \/ GetModelConstruct(r) \/ GetModelRaises(r)
        \/ GetModelReturn(r) \/ Encode(r) \/ EncodeRaises(r)

----------------------------------------------------------------------------
(* matching/rank_candidates.py : main                                      *)
(* matching/scoring_utils.py : aggregate_resume_scores(top_chunks_df, top_n) *)

\* rank_candidates.py:9 and :13
BATCH_TOP_K == 20
BATCH_TOP_N == 5

\* the resumes of the stored chunk table
MaxResumes == 6

\* the chunk scores of one resume, in row order, in score units: a single
\* chunk, two chunks with the better one last, and a long resume with one
\* chunk fewer than the batch keeps
LongResume == Rep(4, BATCH_TOP_K - 1)
ResumeProfiles == { <<2>>, <<1, 3>>, LongResume }

\* the table read at similarity.py:19 with the scores of line 30: the
\* chunks of resume r are the rows scored table[r]; up to MaxResumes
\* resumes, at most one of them long
ChunkTables ==
    { t \in UNION { [1..n -> ResumeProfiles] : n \in 1..MaxResumes } :
         Cardinality({ r \in 1..Len(t) : t[r] = LongResume }) <= 1 }

RECURSIVE MaxOf(_)
MaxOf(s) == IF Len(s) = 1 THEN s[1] ELSE Max(Head(s), MaxOf(Tail(s)))

\* the rows of the table that score at least s
RowsAtLeast(table, s) ==
    SumSeq([r \in 1..Len(table) |->
               Len(SelectSeq(table[r], LAMBDA x : x >= s))])

\* similarity.py:31, head(top_k) after the descending sort: the score of
\* the last row kept, when the table has more than top_k rows
CutScore(table, top_k) ==
    CHOOSE s \in UNION { Range(table[r]) : r \in 1..Len(table) } :
        /\ RowsAtLeast(table, s) >= top_k
        /\ RowsAtLeast(table, s + 1) < top_k

\* the ways to take `need` rows out of the resumes' rows that score the
\* cut score, ties[r] of them in resume r: the unstable sort leaves rows of
\* equal score in any order, so any of them can be before the cut
RECURSIVE TieShares(_, _)
TieShares(ties, need) ==
    IF ties = <<>>
    THEN IF need = 0 THEN {<<>>} ELSE {}
    ELSE UNION { { <<x>> \o d : d \in TieShares(Tail(ties), need - x) } :
                    x \in 0..Min(Head(ties), need) }

\* similarity.py:31: the rows rank_resumes returns, per resume and without
\* their order among the rows returned (groupby does not look at it)
TopRows(table, top_k) ==
    IF RowsAtLeast(table, 0) <= top_k THEN {table}
    ELSE LET cut  == CutScore(table, top_k)
             ties == [r \in 1..Len(table) |->
                         Len(SelectSeq(table[r], LAMBDA x : x = cut))]
             need == top_k - RowsAtLeast(table, cut + 1)
         IN  { [r \in 1..Len(table) |->
                   SelectSeq(table[r], LAMBDA x : x > cut) \o Rep(cut, d[r])] :
                 d \in TieShares(ties, need) }

\* scoring_utils.py:11-13: one row per resume_id present, its highest score
GroupMax(rows) ==
    LET present == SelectSeq([r \in 1..Len(rows) |-> r],
                             LAMBDA r : rows[r] # <<>>)
    IN  [i \in 1..Len(present) |->
            [resume_id |-> present[i], score |-> MaxOf(rows[present[i]])]]

\* scoring_utils.py:14: sort_values("score", ascending=False), rows of
\* equal score in any order
RECURSIVE Descending(_)
Descending(rows) ==
    IF rows = {} THEN {<<>>}
    ELSE UNION { { <<x>> \o rest : rest \in Descending(rows \ {x}) } :
                    x \in { y \in rows : \A z \in rows : z.score <= y.score } }

\* scoring_utils.py:9-18
aggregate_resume_scores(top_chunks_df, top_n) ==
    { PySlice(sorted, 0, top_n) : sorted \in Descending(Range(GroupMax(top_chunks_df))) }

\* rank_candidates.py:9: rank_resumes(job_index=0, top_k=20)
BatchRank ==
    /\ bpc = "idle"
    /\ \E table \in ChunkTables :
          /\ resume_chunks' = table
          /\ batch_top_chunks' \in TopRows(table, BATCH_TOP_K)
    /\ bpc' = "ranked"
    /\ UNCHANGED top_candidates
    /\ UNCHANGED notBatchVars

\* rank_candidates.py:13: aggregate_resume_scores(top_chunks, top_n=5)
BatchAggregate ==
    /\ bpc = "ranked"
    /\ top_candidates' \in aggregate_resume_scores(batch_top_chunks, BATCH_TOP_N)
    /\ bpc' = "done"
    /\ UNCHANGED <<resume_chunks, batch_top_chunks>>
    /\ UNCHANGED notBatchVars

BatchIdle ==
    /\ resume_chunks = <<>>
    /\ batch_top_chunks = <<>>
    /\ top_candidates = <<>>
    /\ bpc = "idle"

BatchNext == BatchRank \/ BatchAggregate

----------------------------------------------------------------------------
(* Specifications: one per component, each from the state in which no    *)
(* call has been made yet                                                 *)

SemIdle ==
    /\ chunk_scores = <<>>
    /\ top_chunks = <<>>
    /\ semantic_score = <<0, 1>>
    /\ spc = "idle"

JobIdle ==
    /\ job_text = <<>>
    /\ lines = <<>>
    /\ line_no = 1
    /\ relevant_lines = <<>>
    /\ required_section = <<>>
    /\ preferred_section = <<>>
    /\ current_section = "none"
    /\ skip_section = FALSE
    /\ job_sections = NoSections
    /\ scan_log = <<>>
    /\ jpc = "idle"

Init ==
    /\ ChunkIdle /\ SemIdle /\ JobIdle /\ KwIdle /\ RankIdle /\ MatchIdle
    /\ HybridIdle /\ ProcIdle /\ BatchIdle

SpecChunk == Init /\ [][ChunkNext]_vars

\* the interpreter always executes the next statement of a running call
FairSpecChunk == SpecChunk /\ WF_vars(ChunkLoop) /\ WF_vars(ChunkReturn)

SpecSem == Init /\ [][SemNext]_vars

SpecJob == Init /\ [][JobNext]_vars

SpecKeywords == Init /\ [][KwNext]_vars

SpecRank == Init /\ [][RankNext]_vars

SpecMatch == Init /\ [][MatchNext]_vars

SpecHybrid == Init /\ [][HybridNext]_vars

SpecProcess == Init /\ [][ProcNext]_vars

SpecBatch == Init /\ [][BatchNext]_vars

----------------------------------------------------------------------------
(* Claims about chunk_text *)

\* the words of 0-based window i, written from the window arithmetic
Window(i) ==
    LET step == chunk_size - overlap
        lo   == i * step
        hi   == Min(lo + chunk_size, Len(words))
    IN  [k \in 1..(hi - lo) |-> words[lo + k]]

WordCount(chunk) == Len(Split(chunk))

AllWhitespace(s) == \A i \in 1..Len(s) : s[i] \in Whitespace

\* C2 (as stated): with overlap >= chunk_size the returned list has length 1
\* for every text, empty and whitespace-only text included.
C2_OneChunkAnyText ==
    (pc = "done" /\ overlap >= chunk_size) => Len(chunks) = 1

\* C2 (amended): with overlap >= chunk_size chunk_text never emits a second
\* chunk, and returns exactly one chunk when the text holds at least one
\* word and zero chunks when the text is empty or whitespace-only.
C2_OneChunkIfWords ==
    (pc # "idle" /\ overlap >= chunk_size) =>
        /\ Len(chunks) <= 1
        /\ pc = "done" => Len(chunks) = (IF words = <<>> THEN 0 ELSE 1)

C2_Witness ==
    /\ pc = "done"
    /\ overlap >= chunk_size
    /\ Len(words) >= 2
    /\ Len(chunks) = 1

\* C3: chunk_text terminates: start strictly increases on every iteration
\* that does not break, the loop exits once start >= len(words), and every
\* running call reaches its return.
C3_Terminates ==
    /\ [][(pc = "loop" /\ pc' = "loop") => start' > start]_vars
    /\ [][(pc = "loop" /\ start >= Len(words)) => pc' = "done"]_vars
    /\ (pc = "loop") ~> (pc = "done")

C3_Witness ==
    /\ pc = "done"
    /\ chunk_size > overlap
    /\ Len(chunks) >= 3
    /\ start >= Len(words)

\* C4: for overlap < chunk_size, chunk i is the words of window
\* [i*(chunk_size-overlap), i*(chunk_size-overlap)+chunk_size) clipped to
\* len(words), joined by single spaces, and every word is in some chunk.
C4_SlidingWindow ==
    (pc # "idle" /\ overlap < chunk_size) =>
        /\ \A i \in 1..Len(chunks) : chunks[i] = Join(" ", Window(i - 1))
        /\ pc = "done" =>
              \A k \in 1..Len(words) :
                 \E i \in 1..Len(chunks) :
                    LET lo == (i - 1) * (chunk_size - overlap)
                    IN  lo < k /\ k <= lo + chunk_size

C4_Witness ==
    /\ pc = "done"
    /\ 0 < overlap /\ overlap < chunk_size
    /\ Len(chunks) >= 2
    /\ WordCount(chunks[Len(chunks)]) < chunk_size
    /\ WordCount(chunks[1]) = chunk_size

\* C5 (as stated): for non-empty words and overlap < chunk_size the number
\* of chunks is ceil((len(words)-overlap)/(chunk_size-overlap)) and only the
\* last chunk may hold fewer than chunk_size words.
C5_CountMinusOverlap ==
    (pc = "done" /\ words # <<>> /\ overlap < chunk_size) =>
        /\ Len(chunks) = CeilDiv(Len(words) - overlap, chunk_size - overlap)
        /\ \A i \in 1..(Len(chunks) - 1) : WordCount(chunks[i]) = chunk_size

\* C5 (amended): for non-empty words and overlap < chunk_size the number of
\* chunks is ceil(len(words)/(chunk_size-overlap)) and chunk i (from 0) holds
\* min(chunk_size, len(words) - i*(chunk_size-overlap)) words.
C5_CountByStep ==
    (pc = "done" /\ words # <<>> /\ overlap < chunk_size) =>
        /\ Len(chunks) = CeilDiv(Len(words), chunk_size - overlap)
        /\ \A i \in 1..Len(chunks) :
              WordCount(chunks[i]) =
                 Min(chunk_size, Len(words) - (i - 1) * (chunk_size - overlap))

C5_Witness ==
    /\ pc = "done"
    /\ 0 < overlap /\ overlap < chunk_size
    /\ Len(chunks) >= 3
    /\ WordCount(chunks[Len(chunks) - 1]) < chunk_size
    /\ Len(chunks) # CeilDiv(Len(words) - overlap, chunk_size - overlap)

\* C6: empty or whitespace-only text gives zero chunks, whatever chunk_size
\* and overlap are.
C6_EmptyTextNoChunks ==
    (pc = "done" /\ AllWhitespace(text)) => chunks = <<>>

C6_Witness ==
    /\ pc = "done"
    /\ Len(text) >= 2
    /\ AllWhitespace(text)
    /\ overlap >= chunk_size
    /\ chunks = <<>>

----------------------------------------------------------------------------
(* Claims about extract_requirements_section *)

\* the lines of a returned text ('' has none)
LinesOf(t) == IF t = <<>> THEN <<>> ELSE SplitOn(t, "\n")

\* the lines already scanned by the for loop
Scanned == IF jpc = "idle" THEN {} ELSE 1..(line_no - 1)

\* line j is an irrelevant-marker line, or follows one with no line
\* containing a relevant marker in between (itself included)
InSkippedRun(j) ==
    \E k \in 1..j :
       /\ IsIrrelevant(lines[k])
       /\ \A m \in (k + 1)..j : ~IsRelevant(lines[m])

\* every line with the text of line j is in a skipped run
OnlyInSkippedRuns(j) ==
    \A k \in 1..Len(lines) : lines[k] = lines[j] => InSkippedRun(k)

\* the lines of the posting whose iteration appended them to list `name`
LoggedFor(name) ==
    LET F[j \in 0..Len(scan_log)] ==
           IF j = 0 THEN <<>>
           ELSE IF name \in scan_log[j].to THEN Append(F[j - 1], lines[j])
                ELSE F[j - 1]
    IN  F[Len(scan_log)]

\* the text the keyword path produces (job_cleaner.py:78)
KeywordCleaned == Join("\n", relevant_lines)

\* C7 (as stated): a line containing an irrelevant marker and every line
\* after it up to the next line containing a relevant marker are excluded
\* from the returned cleaned_text, required_skills and preferred_skills.
C7_SkippedNotReturned ==
    jpc = "done" =>
        \A j \in 1..Len(lines) :
           (InSkippedRun(j) /\ OnlyInSkippedRuns(j)) =>
              /\ lines[j] \notin Range(LinesOf(job_sections.cleaned_text))
              /\ lines[j] \notin Range(LinesOf(job_sections.required_skills))
              /\ lines[j] \notin Range(LinesOf(job_sections.preferred_skills))

\* C7 (amended): such lines are never appended to relevant_lines (the
\* keyword-path cleaned text), required_section or preferred_section, and
\* no line scanned while skip is true is appended to any of them; they are
\* absent from the returned required_skills and preferred_skills, and from
\* the returned cleaned_text whenever the keyword-path text has at least
\* 100 characters (below that the fallback text replaces it).
C7_SkippedNotEmitted ==
    /\ Len(scan_log) = Cardinality(Scanned)
    /\ relevant_lines = LoggedFor("relevant")
    /\ required_section = LoggedFor("required")
    /\ preferred_section = LoggedFor("preferred")
    /\ \A j \in Scanned :
          /\ InSkippedRun(j) => scan_log[j].skip
          /\ scan_log[j].skip => scan_log[j].to = {}
    /\ jpc = "done" =>
          /\ job_sections.required_skills = Join("\n", LoggedFor("required"))
          /\ job_sections.preferred_skills = Join("\n", LoggedFor("preferred"))
          /\ Len(KeywordCleaned) >= 100 =>
                job_sections.cleaned_text = Join("\n", LoggedFor("relevant"))

C7_Witness ==
    /\ jpc = "done"
    /\ Len(KeywordCleaned) >= 100
    /\ \E j \in 2..Len(lines) :
          /\ InSkippedRun(j)
          /\ ~IsIrrelevant(lines[j])
          /\ Strip(lines[j]) # <<>>
          /\ \E m \in (j + 1)..Len(lines) : "relevant" \in scan_log[m].to

\* the tag a relevant-marker line selects, as the claim words it (one
\* evaluation per distinct line)
ClaimedTags ==
    [line \in PostingLines |->
        LET l == Strip(Lower(line))
        IN  IF \E k \in 1..Len(REQUIRED_WORDS) : Contains(l, REQUIRED_WORDS[k])
            THEN "required"
            ELSE IF \E k \in 1..Len(PREFERRED_WORDS) : Contains(l, PREFERRED_WORDS[k])
                 THEN "preferred"
                 ELSE "general"]

ClaimedTag(line) == ClaimedTags[line]

\* C8 (as stated): every line containing a relevant marker clears skip and
\* re-evaluates the tag, whatever other markers it contains.
C8_RelevantAlwaysClears ==
    \A j \in Scanned :
       IsRelevant(lines[j]) =>
          /\ scan_log[j].skip = FALSE
          /\ scan_log[j].tag = ClaimedTag(lines[j])

\* C8 (amended): every line containing a relevant marker and no irrelevant
\* marker clears skip and sets the tag to required / preferred / general as
\* claimed, whatever the previous skip and tag were; a line that also
\* contains an irrelevant marker sets skip and leaves the tag as it was.
C8_RelevantClearsUnlessIrrelevant ==
    \A j \in Scanned :
       LET before == IF j = 1 THEN "none" ELSE scan_log[j - 1].tag
       IN  /\ (IsRelevant(lines[j]) /\ ~IsIrrelevant(lines[j])) =>
                 /\ scan_log[j].skip = FALSE
                 /\ scan_log[j].tag = ClaimedTag(lines[j])
           /\ IsIrrelevant(lines[j]) =>
                 /\ scan_log[j].skip = TRUE
                 /\ scan_log[j].tag = before

C8_Witness ==
    /\ jpc = "scan"
    /\ \E j \in Scanned :
          /\ j >= 3
          /\ scan_log[j - 2].tag = "preferred"
          /\ scan_log[j - 1].skip = TRUE
          /\ IsRelevant(lines[j]) /\ ~IsIrrelevant(lines[j])
          /\ AnyKeyword(LineLower(lines[j]), PREFERRED_WORDS)
          /\ scan_log[j].tag = "required"
          /\ scan_log[j].skip = FALSE

\* A posting "Requirements:" / requirement lines / "Benefits:" / benefits
\* lines: the index of the Benefits header (0 when the posting has another
\* shape)
BenefitsHeader ==
    IF /\ Len(lines) >= 3
       /\ lines[1] = LineRequirements
       /\ lines[2] # LineBenefits
       /\ \E b \in 3..Len(lines) : lines[b] = LineBenefits
    THEN CHOOSE b \in 3..Len(lines) :
            /\ lines[b] = LineBenefits
            /\ \A k \in 2..(b - 1) : lines[k] # LineBenefits
    ELSE 0

RequirementLines == 2..(BenefitsHeader - 1)
BenefitsLines == (BenefitsHeader + 1)..Len(lines)

\* C9 (as stated): on the keyword path, cleaned_text holds every
\* requirement line and no benefits line, whatever the lines contain.
C9_AnyContents ==
    (jpc = "done" /\ BenefitsHeader # 0 /\ Len(KeywordCleaned) >= 100) =>
        /\ job_sections.cleaned_text = Join("\n", LoggedFor("relevant"))
        /\ \A j \in RequirementLines :
              Strip(lines[j]) # <<>> => "relevant" \in scan_log[j].to
        /\ \A j \in BenefitsLines : "relevant" \notin scan_log[j].to

\* C9 (amended): the same, provided no requirement line contains an
\* irrelevant-section marker and no benefits line contains a
\* relevant-section marker; cleaned_text is then exactly the header
\* followed by the non-blank requirement lines.
C9_MarkerFreeContents ==
    ( /\ jpc = "done"
      /\ BenefitsHeader # 0
      /\ Len(KeywordCleaned) >= 100
      /\ \A j \in RequirementLines : ~IsIrrelevant(lines[j])
      /\ \A j \in BenefitsLines : ~IsRelevant(lines[j]) ) =>
        /\ \A j \in RequirementLines :
              Strip(lines[j]) # <<>> => "relevant" \in scan_log[j].to
        /\ \A j \in BenefitsLines : "relevant" \notin scan_log[j].to
        /\ job_sections.cleaned_text =
              Join("\n", <<lines[1]>>
                         \o NonBlank(SubSeq(lines, 2, BenefitsHeader - 1)))

C9_Witness ==
    /\ jpc = "done"
    /\ BenefitsHeader # 0
    /\ Len(KeywordCleaned) >= 100
    /\ \A j \in RequirementLines : ~IsIrrelevant(lines[j])
    /\ \A j \in BenefitsLines : ~IsRelevant(lines[j])
    /\ \E j \in BenefitsLines : Strip(lines[j]) # <<>>
    /\ Len(LinesOf(job_sections.cleaned_text)) = 2

\* C10: below 100 characters the keyword-path text is replaced by the
\* fallback: the original text when it has n < 10 non-blank lines, else
\* the non-blank lines [n div 5, n - n div 5), n - 2*(n div 5) of them;
\* from 100 characters on the keyword-path text is returned.
C10_Fallback ==
    jpc = "done" =>
        LET kept == NonBlank(lines)
            n    == Len(kept)
        IN  IF Len(KeywordCleaned) >= 100
            THEN job_sections.cleaned_text = KeywordCleaned
            ELSE IF n < 10
                 THEN job_sections.cleaned_text = job_text
                 ELSE /\ job_sections.cleaned_text =
                            Join("\n", [i \in 1..(n - 2 * (n \div 5)) |->
                                           kept[(n \div 5) + i]])
                      /\ Len(LinesOf(job_sections.cleaned_text)) = n - 2 * (n \div 5)

C10_Witness ==
    /\ jpc = "done"
    /\ Len(KeywordCleaned) < 100
    /\ Len(NonBlank(lines)) >= 11
    /\ Len(NonBlank(lines)) < Len(lines)
    /\ \E j \in 1..Len(lines) : IsIrrelevant(lines[j])
    /\ Len(LinesOf(job_sections.cleaned_text)) < Len(NonBlank(lines))

\* a is b with some elements left out: every element of a is matched to an
\* element of b at a strictly increasing position
RECURSIVE IsSubsequence(_, _)
IsSubsequence(a, b) ==
    IF a = <<>> THEN TRUE
    ELSE IF b = <<>> THEN FALSE
    ELSE IF Head(a) = Head(b) THEN IsSubsequence(Tail(a), Tail(b))
    ELSE IsSubsequence(a, Tail(b))

\* C11: the lines of the returned cleaned_text are a subsequence of the
\* lines of full_text (original lines, original order, none duplicated or
\* altered), on the keyword path and on the fallback path, and full_text
\* is the unmodified input.
C11_LineSubsequence ==
    jpc = "done" =>
        /\ job_sections.full_text = job_text
        /\ IsSubsequence(SplitOn(job_sections.cleaned_text, "\n"),
                         SplitOn(job_sections.full_text, "\n"))

\* a keyword-path result that leaves out lines between kept lines
C11_Witness ==
    /\ jpc = "done"
    /\ Len(KeywordCleaned) >= 100
    /\ job_sections.cleaned_text = KeywordCleaned
    /\ \E j \in 2..(Len(lines) - 1) :
          /\ "relevant" \notin scan_log[j].to
          /\ "relevant" \in scan_log[j - 1].to
          /\ "relevant" \in scan_log[j + 1].to
    /\ Len(SplitOn(job_sections.cleaned_text, "\n")) < Len(lines)

----------------------------------------------------------------------------
(* Claims about extract_keywords *)

\* v occurs in s as a contiguous phrase with no word character immediately
\* before or after it
ContainsPhrase(s, v) ==
    \E i \in 0..(Len(s) - Len(v)) :
       /\ SubSeq(s, i + 1, i + Len(v)) = v
       /\ ~IsWordAt(s, i)
       /\ ~IsWordAt(s, i + Len(v) + 1)

\* C12: every vocabulary entry v, "c++" and "c#" included, is in its
\* category's result set if and only if the lowercased text contains v as
\* a contiguous phrase that is not immediately preceded or followed by a
\* word character.
C12_WholeWord ==
    kpc = "done" =>
        LET t == Lower(kw_text)
        IN  /\ \A v \in TECH_SKILLS :
                  v \in kw_found.technical_skills <=> ContainsPhrase(t, v)
            /\ \A v \in EDUCATION_LEVELS :
                  v \in kw_found.education <=> ContainsPhrase(t, v)
            /\ \A v \in EXPERIENCE_KEYWORDS :
                  v \in kw_found.experience_level <=> ContainsPhrase(t, v)

----------------------------------------------------------------------------
(* Claims about rank_resumes *)

\* C13: ranking n chunks returns exactly min(top_k, n) of them, the
\* highest-scoring ones in non-increasing score order, chunks of equal
\* score in their original order, also when a tie straddles the cut-off.
C13_StableRanking ==
    rpc = "done" =>
        LET n      == Len(rank_scores)
            m      == Len(ranked)
            chosen == { ranked[i].chunk : i \in 1..m }
        IN  /\ m = Min(rank_top_k, n)
            /\ Cardinality(chosen) = m
            /\ \A i \in 1..m :
                  /\ ranked[i].chunk \in 1..n
                  /\ ranked[i].score = rank_scores[ranked[i].chunk]
            /\ \A i, j \in 1..m :
                  i < j =>
                     \/ ranked[i].score > ranked[j].score
                     \/ /\ ranked[i].score = ranked[j].score
                        /\ ranked[i].chunk < ranked[j].chunk
            /\ \A i \in 1..m, c \in (1..n) \ chosen :
                  \/ ranked[i].score > rank_scores[c]
                  \/ /\ ranked[i].score = rank_scores[c]
                     /\ ranked[i].chunk < c

----------------------------------------------------------------------------
(* Claims about calculate_keyword_match *)

\* matched / wanted as a fraction of the two counts, or the default when
\* nothing is wanted
IsShare(score, matched, wanted, default) ==
    /\ score[2] > 0
    /\ IF wanted = {}
       THEN RatEq(score, default)
       ELSE score[1] * Cardinality(wanted) = score[2] * Cardinality(matched)

\* t = 0.80 * rs + 0.20 * ps, in integers: 5 * t = 4 * rs + ps
IsWeighted(t, rs, ps) ==
    5 * t[1] * rs[2] * ps[2] = t[2] * (4 * rs[1] * ps[2] + ps[1] * rs[2])

\* t = 0.85 * (0.80 * rs + 0.20 * ps), in integers: 100 * t = 17 * (4 rs + ps)
IsWeightedPenalized(t, rs, ps) ==
    100 * t[1] * rs[2] * ps[2] = 17 * t[2] * (4 * rs[1] * ps[2] + ps[1] * rs[2])

ResumeSkills == resume_keywords.technical_skills
JobSkills == job_keywords.technical_skills

\* C14 (as stated): without job_sections, technical_score is
\* |resume_skills /\ job_skills| / |job_skills|, and 0.5 when job_skills is
\* empty.
C14_PlainOverlap ==
    (mpc = "done" /\ ~km_job_sections.given) =>
        LET t == match_result.technical_score
        IN  IF JobSkills = {}
            THEN RatEq(t, <<1, 2>>)
            ELSE t[1] * Cardinality(JobSkills)
                    = t[2] * Cardinality(ResumeSkills \cap JobSkills)

\* C14 (amended): without job_sections the n job skills are split into
\* required, the first int(0.7 n) of list(job_skills), and preferred, the
\* rest; technical_score is 0.80 * required_score + 0.20 * preferred_score
\* over that split (defaults 0.8 and 1.0 for an empty side), times 0.85
\* when more than 3 required skills are missing; for an empty job_skills it
\* is 0.84.
C14_SplitWeighted ==
    (mpc = "done" /\ ~km_job_sections.given) =>
        LET t  == match_result.technical_score
            rs == match_result.required_skill_score
            ps == match_result.preferred_skill_score
        IN  /\ required_skills \subseteq JobSkills
            /\ Cardinality(required_skills) = (7 * Cardinality(JobSkills)) \div 10
            /\ preferred_skills = JobSkills \ required_skills
            /\ IsShare(rs, ResumeSkills \cap required_skills, required_skills, <<4, 5>>)
            /\ IsShare(ps, ResumeSkills \cap preferred_skills, preferred_skills, <<1, 1>>)
            /\ IF Cardinality(required_skills \ ResumeSkills) > 3
               THEN IsWeightedPenalized(t, rs, ps)
               ELSE IsWeighted(t, rs, ps)
            /\ JobSkills = {} => RatEq(t, <<21, 25>>)

\* a call without sections whose technical_score is not the plain overlap
C14_Witness ==
    /\ mpc = "done"
    /\ ~km_job_sections.given
    /\ Cardinality(JobSkills) >= 3
    /\ preferred_skills # {}
    /\ ResumeSkills \cap required_skills # {}
    /\ LET t == match_result.technical_score
       IN  t[1] * Cardinality(JobSkills)
              # t[2] * Cardinality(ResumeSkills \cap JobSkills)

\* C15: with job_sections, required_score = |resume /\ required| / |required|
\* (0.8 when required is empty), preferred_score likewise (1.0 when
\* preferred is empty), the technical_score before the penalty is
\* 0.80 * required_score + 0.20 * preferred_score, and no score is the
\* result of a division by zero, whichever sets are empty.
C15_SectionScores ==
    (km_job_sections.given /\ mpc \in {"scored", "penalized", "done"}) =>
        /\ IsShare(required_score, ResumeSkills \cap required_skills,
                   required_skills, <<4, 5>>)
        /\ IsShare(preferred_score, ResumeSkills \cap preferred_skills,
                   preferred_skills, <<1, 1>>)
        /\ technical_score[2] > 0
        /\ mpc = "scored" => IsWeighted(technical_score, required_score, preferred_score)
        /\ mpc = "done" =>
              /\ match_result.required_skill_score = required_score
              /\ match_result.preferred_skill_score = preferred_score
              /\ match_result.technical_score[2] > 0
              /\ match_result.overall_keyword_score[2] > 0

\* both sections and the job's skill set are empty: the two defaults apply
C15_Witness ==
    /\ mpc = "scored"
    /\ km_job_sections.given
    /\ required_skills = {} /\ preferred_skills = {} /\ JobSkills = {}
    /\ ResumeSkills # {}
    /\ technical_score = <<21, 25>>

\* C16: the returned technical_score is 0.85 times the unpenalized value
\* exactly when more than 3 required skills are missing from the resume,
\* and the unpenalized value otherwise, however many preferred skills are
\* missing; the factor is applied once.
C16_PenaltyAboveThree ==
    mpc = "done" =>
        LET t  == match_result.technical_score
            rs == match_result.required_skill_score
            ps == match_result.preferred_skill_score
        IN  /\ Len(match_result.missing_required)
                  = Cardinality(required_skills \ ResumeSkills)
            /\ IF Cardinality(required_skills \ ResumeSkills) >= 4
               THEN IsWeightedPenalized(t, rs, ps)
               ELSE IsWeighted(t, rs, ps)

\* 5 required skills, 1 matched, 4 missing: the penalty shows
C16_Witness ==
    /\ mpc = "done"
    /\ Cardinality(required_skills) = 5
    /\ Cardinality(ResumeSkills \cap required_skills) = 1
    /\ Len(match_result.missing_required) = 4
    /\ Len(match_result.missing_preferred) >= 1
    /\ match_result.technical_score = <<17, 125>>

\* C17: technical_score, required_skill_score and preferred_skill_score of
\* the returned dict are each within [0, 1], with or without job_sections.
C17_ScoresInUnitInterval ==
    mpc = "done" =>
        \A s \in { match_result.technical_score,
                   match_result.required_skill_score,
                   match_result.preferred_skill_score } :
           /\ s[2] > 0
           /\ 0 <= s[1]
           /\ s[1] <= s[2]

\* every required and preferred skill matched: the scores sit at 1
C17_Witness ==
    /\ mpc = "done"
    /\ km_job_sections.given
    /\ required_skills # {} /\ preferred_skills # {}
    /\ match_result.required_skill_score = <<1, 1>>
    /\ match_result.preferred_skill_score = <<1, 1>>
    /\ match_result.technical_score = <<1, 1>>

\* C18: education_score is 1.0 exactly when the resume and job education
\* sets share an element and 0.5 otherwise; experience_score is 1.0 exactly
\* when the experience_level sets share an element and 0.7 otherwise.
C18_LevelScores ==
    mpc = "done" =>
        /\ match_result.education_score =
              IF resume_keywords.education \cap job_keywords.education # {}
              THEN <<1, 1>> ELSE <<1, 2>>
        /\ match_result.experience_score =
              IF resume_keywords.experience_level
                    \cap job_keywords.experience_level # {}
              THEN <<1, 1>> ELSE <<7, 10>>

\* both sides name an education level but not the same one, and share an
\* experience level
C18_Witness ==
    /\ mpc = "done"
    /\ resume_keywords.education # {}
    /\ job_keywords.education # {}
    /\ resume_keywords.education \cap job_keywords.education = {}
    /\ match_result.education_score = <<1, 2>>
    /\ Cardinality(resume_keywords.experience_level) = 2
    /\ Cardinality(job_keywords.experience_level) = 1
    /\ match_result.experience_score = <<1, 1>>

\* a list of str in strictly ascending order (so without duplicates)
Ascending(list) ==
    \A i \in 1..(Len(list) - 1) : StrLess(list[i], list[i + 1])

\* C25: matched_skills, missing_skills, missing_required and
\* missing_preferred are ascending lists without duplicates; missing_skills
\* holds exactly the skills of missing_required and missing_preferred;
\* no skill is both matched and missing; with and without job_sections.
C25_SortedSkillLists ==
    mpc = "done" =>
        /\ Ascending(match_result.matched_skills)
        /\ Ascending(match_result.missing_skills)
        /\ Ascending(match_result.missing_required)
        /\ Ascending(match_result.missing_preferred)
        /\ Range(match_result.missing_skills)
              = Range(match_result.missing_required)
                   \cup Range(match_result.missing_preferred)
        /\ Range(match_result.matched_skills)
              \cap Range(match_result.missing_skills) = {}

\* a call with sections in which a skill is missing both as required and
\* as preferred, two more required skills are missing and one is matched
C25_Witness ==
    /\ mpc = "done"
    /\ km_job_sections.given
    /\ Len(match_result.matched_skills) = 1
    /\ Len(match_result.missing_required) = 3
    /\ Len(match_result.missing_preferred) = 2
    /\ Len(match_result.missing_skills) = 4

\* C28: when job_sections is passed (as the scoring pipeline does), every
\* technical skill of the job keywords, those found in the cleaned job
\* text, is in matched_skills or in missing_skills, also a skill that only
\* occurs in lines tagged general or untagged.
C28_EveryJobSkillReported ==
    (mpc = "done" /\ km_job_sections.given) =>
        JobSkills \subseteq Range(match_result.matched_skills)
                               \cup Range(match_result.missing_skills)

\* C24: without job_sections the split is deterministic: the same
\* resume_keywords and job_keywords always give the same required /
\* preferred partition, whatever order list(job_skills) lists the set in,
\* and so the same missing_required and missing_preferred.
C24_DeterministicSplit ==
    (mpc # "idle" /\ ~km_job_sections.given) =>
        \A head \in SplitHeads(JobSkills) :
            /\ required_skills = head
            /\ preferred_skills = JobSkills \ head
            /\ mpc = "done" =>
                  /\ match_result.missing_required = Sorted(head \ ResumeSkills)
                  /\ match_result.missing_preferred
                        = Sorted((JobSkills \ head) \ ResumeSkills)

----------------------------------------------------------------------------
(* Claims about calculate_hybrid_score *)

\* 0.40 * technical + 0.30 * boosted + 0.20 * experience + 0.10 * education
\* of the call's arguments, missing sub-scores counting 0.5
WeightedSum ==
    RatAdd(RatAdd(RatMul(<<4, 10>>, HsTechnical),
                  RatMul(<<2, 10>>, HsExperience)),
           RatAdd(RatMul(<<3, 10>>, boosted_semantic),
                  RatMul(<<1, 10>>, HsEducation)))

\* C19: boosted = min(semantic_score * 1.8, 1.0); before the cross-domain
\* adjustment hybrid = 0.40 * technical + 0.30 * boosted + 0.20 * experience
\* + 0.10 * education; the returned semantic_score is the boosted value and
\* raw_semantic_score the unmodified argument.
C19_BoostAndFuse ==
    /\ hpc \in {"fused", "adjusted", "done"} =>
          IF 9 * hs_semantic_score[1] < 5 * hs_semantic_score[2]
          THEN 5 * boosted_semantic[1] * hs_semantic_score[2]
                  = 9 * hs_semantic_score[1] * boosted_semantic[2]
          ELSE boosted_semantic = <<1, 1>>
    /\ hpc = "fused" => RatEq(hybrid_score, WeightedSum)
    /\ hpc = "done" =>
          /\ score_breakdown.semantic_score = boosted_semantic
          /\ score_breakdown.raw_semantic_score = hs_semantic_score
          /\ score_breakdown.technical_score = HsTechnical
          /\ score_breakdown.experience_score = HsExperience
          /\ score_breakdown.education_score = HsEducation

\* semantic 2/3 boosts to the cap 1.0, not to 1.2; technical 0.6,
\* experience 0.7, education 0.5 fuse with it to 0.73
C19_Witness ==
    /\ hpc = "fused"
    /\ hs_semantic_score = <<2, 3>>
    /\ boosted_semantic = <<1, 1>>
    /\ keyword_match_results.technical_score = <<3, 5>>
    /\ keyword_match_results.experience_score = <<7, 10>>
    /\ keyword_match_results.education_score = <<1, 2>>
    /\ hybrid_score = <<73, 100>>

\* C20: the returned hybrid_score is the fused value plus 0.05 exactly
\* when boosted_semantic > 0.4 and technical_score < 0.5, both strict, and
\* the fused value otherwise; the 0.05 is added once.
C20_CrossDomainBonus ==
    /\ hpc \in {"adjusted", "done"} =>
          IF /\ 5 * boosted_semantic[1] > 2 * boosted_semantic[2]
             /\ 2 * HsTechnical[1] < HsTechnical[2]
          THEN RatEq(hybrid_score, RatAdd(WeightedSum, <<5, 100>>))
          ELSE RatEq(hybrid_score, WeightedSum)
    /\ hpc = "done" => score_breakdown.hybrid_score = hybrid_score

\* semantic 1/3 boosts to 0.6 > 0.4, technical 0.3 < 0.5: 0.49 + 0.05
C20_Witness ==
    /\ hpc = "done"
    /\ hs_semantic_score = <<1, 3>>
    /\ boosted_semantic = <<3, 5>>
    /\ keyword_match_results.technical_score = <<3, 10>>
    /\ keyword_match_results.experience_score = <<7, 10>>
    /\ keyword_match_results.education_score = <<1, 2>>
    /\ score_breakdown.hybrid_score = <<27, 50>>

\* 0 <= q <= 1
InUnit(q) == 0 <= q[1] /\ q[1] <= q[2]

\* C27: when the technical, boosted semantic, experience and education
\* sub-scores are in [0, 1], the returned hybrid_score is in [0, 1]: the
\* 0.05 bonus is only added when technical_score < 0.5 and then does not
\* lift the score above 1.
C27_HybridInUnitInterval ==
    (/\ hpc = "done"
     /\ InUnit(score_breakdown.technical_score)
     /\ InUnit(score_breakdown.semantic_score)
     /\ InUnit(score_breakdown.experience_score)
     /\ InUnit(score_breakdown.education_score)) =>
        /\ score_breakdown.hybrid_score[2] > 0
        /\ InUnit(score_breakdown.hybrid_score)
        /\ score_breakdown.hybrid_score = hybrid_score

\* the highest score with the bonus: technical 0.4, semantic at the cap,
\* experience and education 1.0 give 0.76 + 0.05 = 0.81; and the highest
\* score of all, 1.0, has no bonus
C27_Witness ==
    /\ hpc = "done"
    /\ score_breakdown.technical_score = <<2, 5>>
    /\ score_breakdown.semantic_score = <<1, 1>>
    /\ score_breakdown.experience_score = <<1, 1>>
    /\ score_breakdown.education_score = <<1, 1>>
    /\ score_breakdown.hybrid_score = <<81, 100>>

\* what each category carries: its icon and its recommendation
CategoryCarries ==
    [c \in {"Excellent Match", "Good Match", "Moderate Match", "Low Match"} |->
        CASE c = "Excellent Match" ->
                <<"fire", "Strong candidate - Recommend immediate interview">>
          [] c = "Good Match" ->
                <<"check", "Solid candidate - Review in detail">>
          [] c = "Moderate Match" ->
                <<"warning", "Some gaps exist - Consider with reservations">>
          [] c = "Low Match" ->
                <<"cross", "Significant gaps - May not be suitable">>]

\* C21: the category follows the final hybrid_score (bonus included) with
\* inclusive lower bounds: >= 0.70 Excellent Match, else >= 0.55 Good
\* Match, else >= 0.40 Moderate Match, else Low Match; a score equal to a
\* bound is in the higher category; each category carries one icon and one
\* recommendation.
C21_InclusiveCategories ==
    hpc = "done" =>
        LET n == score_breakdown.hybrid_score[1]
            d == score_breakdown.hybrid_score[2]
            c == score_breakdown.match_category
        IN  /\ score_breakdown.hybrid_score = hybrid_score
            /\ c = (IF 10 * n >= 7 * d THEN "Excellent Match"
                    ELSE IF 20 * n >= 11 * d THEN "Good Match"
                    ELSE IF 5 * n >= 2 * d THEN "Moderate Match"
                    ELSE "Low Match")
            /\ score_breakdown.match_icon = CategoryCarries[c][1]
            /\ score_breakdown.recommendation = CategoryCarries[c][2]

\* technical 0.6, semantic 0.5 (boosted 0.9), experience 0.7, education 0.5:
\* 0.24 + 0.27 + 0.14 + 0.05 = 0.70, on the bound, Excellent Match
C21_Witness ==
    /\ hpc = "done"
    /\ hs_semantic_score = <<1, 2>>
    /\ keyword_match_results.technical_score = <<3, 5>>
    /\ keyword_match_results.experience_score = <<7, 10>>
    /\ keyword_match_results.education_score = <<1, 2>>
    /\ score_breakdown.hybrid_score = <<7, 10>>
    /\ score_breakdown.match_category = "Excellent Match"

----------------------------------------------------------------------------
(* Claims about the routing of lines in extract_requirements_section *)

\* the scanned lines that are not blank, were scanned with skip false and,
\* for the two tagged lists, under the tag `name`
Routed(name) ==
    LET F[j \in 0..Len(scan_log)] ==
           IF j = 0 THEN <<>>
           ELSE IF /\ Strip(lines[j]) # <<>>
                   /\ ~scan_log[j].skip
                   /\ (name = "relevant" \/ scan_log[j].tag = name)
                THEN Append(F[j - 1], lines[j])
                ELSE F[j - 1]
    IN  F[Len(scan_log)]

\* no marker line has been scanned up to line j
BeforeAnyMarker(j) ==
    \A k \in 1..j : ~IsRelevant(lines[k]) /\ ~IsIrrelevant(lines[k])

\* C26: every non-blank line scanned while skip is false is appended once
\* to the keyword-path cleaned text, and also to required_skills iff the
\* current tag is required, to preferred_skills iff it is preferred, never
\* to both; lines before any marker line (tag none, skip false) go to the
\* cleaned text only. Skip and tag are those in force at line 69, after
\* the line's own markers were looked at.
C26_RoutedByTag ==
    /\ Len(scan_log) = Cardinality(Scanned)
    /\ relevant_lines = Routed("relevant")
    /\ required_section = Routed("required")
    /\ preferred_section = Routed("preferred")
    /\ Len(required_section) + Len(preferred_section) <= Len(relevant_lines)
    /\ \A j \in Scanned :
          BeforeAnyMarker(j) =>
             /\ scan_log[j].tag = "none"
             /\ ~scan_log[j].skip
    /\ jpc = "done" =>
          /\ job_sections.required_skills = Join("\n", Routed("required"))
          /\ job_sections.preferred_skills = Join("\n", Routed("preferred"))

\* a plain line before any marker, then a required and a preferred header:
\* three lines in the cleaned text, one in each of the two sections
C26_Witness ==
    /\ jpc = "done"
    /\ lines = <<LineSql, LineMustHave, LineNiceToHave>>
    /\ relevant_lines = lines
    /\ required_section = <<LineMustHave>>
    /\ preferred_section = <<LineNiceToHave>>
    /\ scan_log[1].tag = "none"

\* C29: every line of the returned required_skills and preferred_skills
\* also occurs in the returned cleaned_text, also when the fallback
\* replaced cleaned_text by the middle slice.
C29_SectionsWithinCleaned ==
    jpc = "done" =>
        Range(LinesOf(job_sections.required_skills))
              \cup Range(LinesOf(job_sections.preferred_skills))
           \subseteq Range(LinesOf(job_sections.cleaned_text))

----------------------------------------------------------------------------
(* Claims about process_uploaded_resume, process_job_description and       *)
(* get_embedding_model                                                     *)

\* the text the length test of request r looked at was too short or missing
ShortInput(r) ==
    /\ requests[r].pc # "idle"
    /\ \/ requests[r].text = None
       \/ /\ requests[r].op = "resume"
          /\ Len(Strip(requests[r].text)) < 50
       \/ /\ requests[r].op = "job"
          /\ Len(Strip(requests[r].text)) < 20

\* C22: every call of process_uploaded_resume and process_job_description
\* returns a result; text that is missing or, stripped, shorter than 50
\* (resume) or 20 (job) characters, and every exception raised by the PDF
\* reader or the embedding model, give success = False with a non-empty
\* error; for too-short input the embedding model is never invoked.
C22_StructuredFailure ==
    \A r \in Requests :
        /\ ShortInput(r) =>
              /\ requests[r].pc = "done"
              /\ requests[r].model = NoModel
              /\ requests[r].encodes = 0
        /\ requests[r].pc = "done" =>
              /\ requests[r].result # NoResult
              /\ (ShortInput(r) \/ requests[r].raised) =>
                    /\ requests[r].result.success = FALSE
                    /\ requests[r].result.error # None
                    /\ Len(requests[r].result.error) > 0
              /\ requests[r].result.success =>
                    /\ ~ShortInput(r)
                    /\ ~requests[r].raised
                    /\ requests[r].result.error = None

\* a job text of 19 characters between blanks is refused, a file the reader
\* cannot open is refused, and an exception with an empty message raised by
\* encode ends in a failure result
C22_Witness ==
    \E r, q \in Requests :
        /\ requests[r].pc = "done" /\ requests[r].op = "job"
        /\ Len(requests[r].text) = 22
        /\ requests[r].result.error = JOB_TOO_SHORT
        /\ requests[q].pc = "done" /\ requests[q].op = "resume"
        /\ requests[q].raised /\ requests[q].encodes = 1
        /\ requests[q].result.error = PROCESSING_FAILED

\* C23: SentenceTransformer is instantiated at most once per process, and
\* every call of get_embedding_model returns that one instance, however the
\* calls of the requests interleave.
C23_SingleInstance ==
    /\ instances <= 1
    /\ \A r \in Requests :
          requests[r].pc \in {"encode", "done"} /\ requests[r].model # NoModel
             => requests[r].model = 1

----------------------------------------------------------------------------
(* Claims about the batch report of rank_candidates *)

\* the highest score over all chunks of resume r
BestOfAll(r) == MaxOf(resume_chunks[r])

\* C30: the report lists exactly min(5, number of resumes) resumes, each
\* once, those with the highest maximum chunk score over all of their
\* chunks, each with that maximum as its score, in non-increasing order:
\* cutting to the top 20 chunks first drops no resume of the top 5.
C30_TopFiveOfAllChunks ==
    bpc = "done" =>
        LET n    == Len(top_candidates)
            ids  == { top_candidates[i].resume_id : i \in 1..n }
        IN  /\ n = Min(5, Len(resume_chunks))
            /\ Cardinality(ids) = n
            /\ ids \subseteq 1..Len(resume_chunks)
            /\ \A i \in 1..n :
                  top_candidates[i].score = BestOfAll(top_candidates[i].resume_id)
            /\ \A i \in 1..(n - 1) :
                  top_candidates[i].score >= top_candidates[i + 1].score
            /\ \A r \in (1..Len(resume_chunks)) \ ids :
                  \A i \in 1..n : BestOfAll(r) <= top_candidates[i].score

----------------------------------------------------------------------------
(* Claims about the semantic score *)

\* the sum of the k highest values of a list of integers
RECURSIVE SumHighest(_, _)
SumHighest(scores, k) ==
    IF k = 0 \/ scores = <<>> THEN 0
    ELSE LET m == CHOOSE i \in 1..Len(scores) :
                     \A j \in 1..Len(scores) : scores[j] <= scores[i]
         IN  scores[m] + SumHighest(SubSeq(scores, 1, m - 1)
                                    \o SubSeq(scores, m + 1, Len(scores)), k - 1)

\* C1: the semantic_score handed to calculate_hybrid_score is the arithmetic
\* mean of the min(3, n) highest chunk scores, n the length of the ranked
\* list: for n = 1 or n = 2 the sum is divided by n, never by 3.
C1_MeanOfAvailable ==
    spc = "scored" =>
        LET n == Len(top_chunks)
            k == Min(3, n)
        IN  semantic_score[1] * k = semantic_score[2] * SumHighest(chunk_scores, k)

=============================================================================
